---- MODULE Spec2Model ----
(***************************************************************************)
(* CODE_MARK: scanner (layer1_scanner/scanner.py), entity linker           *)
(* (layer1_linker/linker.py), entity store (layer1_mapper/mapper.py),      *)
(* audit log (security/audit_logger.py) and the button handlers of app.py  *)
(* that call them.                                                         *)
(*                                                                         *)
(* Conventions.  A Python str is a sequence of one-character strings.      *)
(* A fragment list is a sequence; index i here is Python index i-1.        *)
(* A similarity ratio 2*M/T is kept as the pair M (matched characters) and *)
(* T (total length); a confidence is an integer number of hundredths; a    *)
(* threshold is an integer percentage (app.py passes threshold / 100.0).   *)
(* datetime.utcnow() is the counter now; uuid.uuid4() is the counter       *)
(* nextUuid (a fresh value per call).                                      *)
(***************************************************************************)
EXTENDS Integers, Sequences, FiniteSets, TLC

(***************************************************************************)
(* Bounds of the model.                                                    *)
(***************************************************************************)
\* Longest fragment list a linker run is given.
MaxFrags == 3
\* Longest fragment list of one scan saved into the store.
MaxScan == 2
\* Number of store calls in one behaviour (also the range of the clock).
MaxOps == 3
\* Number of store calls in one behaviour when the persistence layer may fail.
MaxFailOps == 2
\* Number of scans saved before the concurrent callers begin.
MaxSeeds == 1

(***************************************************************************)
(* Strings                                                                 *)
(***************************************************************************)
\* str.lower() on one character (ASCII letters of the model's alphabet).
LowerChar(c) ==
    CASE c = "A" -> "a"
      [] c = "B" -> "b"
      [] c = "C" -> "c"
      [] c = "D" -> "d"
      [] c = "E" -> "e"
      [] c = "I" -> "i"
      [] c = "L" -> "l"
      [] c = "M" -> "m"
      [] c = "N" -> "n"
      [] c = "O" -> "o"
      [] c = "P" -> "p"
      [] c = "R" -> "r"
      [] c = "S" -> "s"
      [] OTHER -> c

\* str.lower()
Lower(s) == [i \in 1..Len(s) |-> LowerChar(s[i])]

IsSpace(c) == c = " "

\* str.strip(): drop leading and trailing whitespace.
RECURSIVE LStrip(_)
LStrip(s) == IF s # <<>> /\ IsSpace(Head(s)) THEN LStrip(Tail(s)) ELSE s

RECURSIVE RStrip(_)
RStrip(s) ==
    IF s # <<>> /\ IsSpace(s[Len(s)]) THEN RStrip(SubSeq(s, 1, Len(s) - 1)) ELSE s

Strip(s) == RStrip(LStrip(s))

\* linker.py line 28 and 36: str(value).lower().strip()
Normalize(s) == Strip(Lower(s))

(***************************************************************************)
(* difflib.SequenceMatcher(None, a, b).ratio(), for strings shorter than   *)
(* 200 characters (no junk, no "popular element" pruning).                 *)
(***************************************************************************)
\* Length of the common run of a from i and b from j, inside a[..ahi], b[..bhi]
\* (positions are 1-based and inclusive).
RECURSIVE RunLen(_, _, _, _, _, _)
RunLen(a, b, i, j, ahi, bhi) ==
    IF i <= ahi /\ j <= bhi /\ a[i] = b[j]
    THEN 1 + RunLen(a, b, i + 1, j + 1, ahi, bhi)
    ELSE 0

\* find_longest_match(alo, ahi, blo, bhi): the longest matching block, the
\* one starting earliest in a, and among those earliest in b.
FindLongestMatch(a, b, alo, ahi, blo, bhi) ==
    LET Cand == {<<i, j>> \in (alo..ahi) \X (blo..bhi) : TRUE}
        K(p) == RunLen(a, b, p[1], p[2], ahi, bhi)
        best == IF Cand = {} THEN 0
                ELSE CHOOSE k \in {K(p) : p \in Cand} :
                         \A p \in Cand : K(p) <= k
    IN  IF best = 0 THEN [i |-> alo, j |-> blo, k |-> 0]
        ELSE LET Best == {p \in Cand : K(p) = best}
                 p == CHOOSE q \in Best :
                          \A r \in Best :
                              q[1] < r[1] \/ (q[1] = r[1] /\ q[2] <= r[2])
             IN  [i |-> p[1], j |-> p[2], k |-> best]

\* get_matching_blocks(): total size of the blocks found by splitting around
\* the longest match and recursing to its left and to its right.
RECURSIVE Matches(_, _, _, _, _, _)
Matches(a, b, alo, ahi, blo, bhi) ==
    IF alo > ahi \/ blo > bhi THEN 0
    ELSE LET m == FindLongestMatch(a, b, alo, ahi, blo, bhi)
         IN  IF m.k = 0 THEN 0
             ELSE m.k
                  + Matches(a, b, alo, m.i - 1, blo, m.j - 1)
                  + Matches(a, b, m.i + m.k, ahi, m.j + m.k, bhi)

\* ratio() = 2.0 * M / T, kept exact as [m |-> M, t |-> T]; 1.0 when T = 0.
Ratio(a, b) ==
    IF Len(a) + Len(b) = 0 THEN [m |-> 1, t |-> 2]
    ELSE [m |-> Matches(a, b, 1, Len(a), 1, Len(b)), t |-> Len(a) + Len(b)]

\* r1 <= r2 as rationals 2*m/t.
RatioLeq(r1, r2) == r1.m * r2.t <= r2.m * r1.t

\* max(similarities)
RECURSIVE MaxRatio(_)
MaxRatio(rs) ==
    IF Len(rs) = 1 THEN rs[1]
    ELSE LET rest == MaxRatio(Tail(rs))
         IN  IF RatioLeq(rest, rs[1]) THEN rs[1] ELSE rest

\* Mutant: the comparison of line 40 inverted.
MeetsThresholdInverted(r, pct) == 200 * r.m <= pct * r.t

\* max_similarity >= score_threshold, the threshold being pct / 100.0
MeetsThreshold(r, pct) == 200 * r.m >= pct * r.t

\* round(x, 2) in hundredths: nearest, ties to even.  (A tie needs T >= 16;
\* there the double nearest to 2*M/T decides in Python.)
Round2(r) ==
    LET n == 200 * r.m
        q == n \div r.t
        rem == n % r.t
    IN  IF 2 * rem > r.t THEN q + 1
        ELSE IF 2 * rem < r.t THEN q
        ELSE IF q % 2 = 0 THEN q ELSE q + 1

(***************************************************************************)
(* Entity ids: f"E-{entity_counter:06d}"                                   *)
(***************************************************************************)
DigitChar(d) ==
    CASE d = 0 -> "0" [] d = 1 -> "1" [] d = 2 -> "2" [] d = 3 -> "3"
      [] d = 4 -> "4" [] d = 5 -> "5" [] d = 6 -> "6" [] d = 7 -> "7"
      [] d = 8 -> "8" [] OTHER -> "9"

\* The decimal digits of n >= 0.
RECURSIVE Digits(_)
Digits(n) ==
    IF n < 10 THEN <<DigitChar(n)>>
    ELSE Digits(n \div 10) \o <<DigitChar(n % 10)>>

\* Left-pad with "0" to the given width (the format spec 06d).
RECURSIVE ZeroPad(_, _)
ZeroPad(s, width) == IF Len(s) >= width THEN s ELSE ZeroPad(<<"0">> \o s, width)

EntityIdWidth == 6

\* Mutant: the id is formatted before the counter is incremented.
EntityIdFromZero(counter) ==
    <<"E", "-">> \o ZeroPad(Digits(counter - 1), EntityIdWidth)

EntityId(counter) == <<"E", "-">> \o ZeroPad(Digits(counter), EntityIdWidth)

(***************************************************************************)
(* cluster_fragments(fragments, score_threshold)                           *)
(*                                                                         *)
(* The loop state: groups (entity_groups, in insertion order; each with    *)
(* its entity_id and the values of its members), mapping (fragment index   *)
(* -> entity_id and confidence), counter (entity_counter) and table (the   *)
(* columns entity_id and score of df).                                     *)
(***************************************************************************)
\* df["entity_id"] = None (line 17).
None == <<>>

EmptyMapping == [i \in {} |-> [entity_id |-> <<>>, confidence |-> 0]]

\* Lines 36-38: the maximum similarity of val to the members of a group.
GroupSimilarity(val, members) ==
    MaxRatio([k \in 1..Len(members) |-> Ratio(val, Normalize(members[k]))])

\* Mutant: best match instead of first match: the group with the highest
\* similarity among those that meet the threshold.
FirstMatchBest(groups, val, pct) ==
    LET Hits == {g \in 1..Len(groups) :
                    MeetsThreshold(GroupSimilarity(val, groups[g].members), pct)}
    IN  IF Hits = {} THEN 0
        ELSE CHOOSE g \in Hits : \A h \in Hits :
                 RatioLeq(GroupSimilarity(val, groups[h].members),
                          GroupSimilarity(val, groups[g].members))

\* Mutant: no group is ever joined, every fragment seeds an entity.
FirstMatchNone(groups, val, pct) == 0

\* Lines 35-50: the first group, in creation order, whose maximum similarity
\* meets the threshold; 0 when there is none.
FirstMatch(groups, val, pct) ==
    LET Hits == {g \in 1..Len(groups) :
                    MeetsThreshold(GroupSimilarity(val, groups[g].members), pct)}
    IN  IF Hits = {} THEN 0 ELSE CHOOSE g \in Hits : \A h \in Hits : g <= h

\* One iteration of the loop of lines 27-67, for the fragment at index i:
\* the groups, the mapping and the two columns of the table it sets.
ClusterStep(st, frags, i, pct) ==
    LET val == Normalize(frags[i].value)
        g == FirstMatch(st.groups, val, pct)
    IN  IF val = <<>> THEN st
        ELSE IF g # 0
        THEN [groups |-> [st.groups EXCEPT
                             ![g].members = Append(@, frags[i].value)],
              mapping |-> (i :> [entity_id |-> st.groups[g].entity_id,
                                 confidence |->
                                     Round2(GroupSimilarity(val, st.groups[g].members))])
                          @@ st.mapping,
              counter |-> st.counter,
              table |-> [st.table EXCEPT
                            ![i] = [entity_id |-> st.groups[g].entity_id,
                                    score |-> Round2(GroupSimilarity(
                                                  val, st.groups[g].members))]]]
        ELSE [groups |-> Append(st.groups,
                                [entity_id |-> EntityId(st.counter + 1),
                                 members |-> <<frags[i].value>>]),
              mapping |-> (i :> [entity_id |-> EntityId(st.counter + 1),
                                 confidence |-> 100])
                          @@ st.mapping,
              counter |-> st.counter + 1,
              table |-> [st.table EXCEPT
                            ![i] = [entity_id |-> EntityId(st.counter + 1),
                                    score |-> 100]]]

RECURSIVE ClusterLoop(_, _, _, _)
ClusterLoop(st, frags, i, pct) ==
    IF i > Len(frags) THEN st
    ELSE ClusterLoop(ClusterStep(st, frags, i, pct), frags, i + 1, pct)

\* Lines 16-25: the table with its two new columns (entity_id None, score
\* 0.0), no group, an empty mapping; then the loop.
ClusterRun(frags, pct) ==
    ClusterLoop([groups |-> <<>>, mapping |-> EmptyMapping, counter |-> 0,
                 table |-> [i \in 1..Len(frags) |->
                               [entity_id |-> None, score |-> 0]]],
                frags, 1, pct)

\* The mapping cluster_fragments returns.
ClusterFragments(frags, pct) == ClusterRun(frags, pct).mapping

\* The sentinel of line 70.
NotAssigned == <<"N", "/", "A">>

\* Mutant: fillna without the entity_id column.
FillNaScoreOnly(table) == table

\* Line 70: fillna puts the sentinel where entity_id is still None (score
\* is never missing).
FillNa(table) ==
    [i \in 1..Len(table) |->
        IF table[i].entity_id = None
        THEN [table[i] EXCEPT !.entity_id = NotAssigned]
        ELSE table[i]]

\* The annotated table cluster_fragments returns, columns entity_id and
\* score.
AnnotatedTable(frags, pct) == FillNa(ClusterRun(frags, pct).table)

\* app.py line 443: the distinct entity ids of a mapping.
MappingEntityIds(mapping) == {mapping[i].entity_id : i \in DOMAIN mapping}

(***************************************************************************)
(* The store (mapper.py).  A database value db holds the three tables as   *)
(* sets of rows; a transaction is the list of statements a handler issues  *)
(* on its connection, ending with commit.                                  *)
(***************************************************************************)
EmptyDb == [entities |-> {}, fragments |-> {}, erasures |-> {}]

\* Mutant: the WHERE clause left out, every fragment row is counted.
CountFragmentsAll(d, eid) == Cardinality(d.fragments)

\* SELECT COUNT(*) FROM fragments WHERE entity_id=?
CountFragments(d, eid) == Cardinality({f \in d.fragments : f.entity_id = eid})

\* SELECT COUNT(*) FROM entities WHERE entity_id=?
CountEntities(d, eid) == Cardinality({e \in d.entities : e.entity_id = eid})

\* A statement that violates a PRIMARY KEY raises sqlite3.IntegrityError.
Violates(d, s) ==
    CASE s.op = "insert_entity" ->
             \E e \in d.entities : e.entity_id = s.row.entity_id
      [] s.op = "insert_fragment" ->
             \E f \in d.fragments : f.frag_id = s.row.frag_id
      [] s.op = "insert_erasure" ->
             \E x \in d.erasures : x.erasure_id = s.row.erasure_id
      [] OTHER -> FALSE

\* The effect of one statement on the connection's view of the database.
Apply(d, s) ==
    CASE s.op = "delete_fragments_of" ->
             [d EXCEPT !.fragments = {f \in @ : f.entity_id # s.entity_id}]
      [] s.op = "delete_entity" ->
             [d EXCEPT !.entities = {e \in @ : e.entity_id # s.entity_id}]
      [] s.op = "delete_fragment" ->
             [d EXCEPT !.fragments = {f \in @ : f.frag_id # s.frag_id}]
      [] s.op = "insert_entity" ->
             [d EXCEPT !.entities = @ \cup {s.row}]
      [] s.op = "insert_fragment" ->
             [d EXCEPT !.fragments = @ \cup {s.row}]
      [] s.op = "insert_erasure" ->
             [d EXCEPT !.erasures = @ \cup {s.row}]
      [] s.op = "update_entity" ->
             [d EXCEPT !.entities =
                 {IF e.entity_id = s.entity_id
                  THEN [e EXCEPT !.fragment_count = s.fragment_count,
                                 !.updated_at = s.updated_at]
                  ELSE e : e \in @}]
      [] OTHER -> d

\* Run the statements from the k-th on; the persistence layer raises at
\* statement failAt (0: it never does) or at a key violation.
RECURSIVE Exec(_, _, _, _)
Exec(work, stmts, k, failAt) ==
    IF k > Len(stmts) THEN [work |-> work, raised |-> FALSE]
    ELSE IF k = failAt \/ Violates(work, stmts[k])
    THEN [work |-> work, raised |-> TRUE]
    ELSE Exec(Apply(work, stmts[k]), stmts, k + 1, failAt)

\* Mutant: every statement is committed as it runs (autocommit), a rollback
\* undoes nothing.
RollbackKeepsWork(committed, work) == work

\* conn.rollback(), and equally a connection dropped without commit: the
\* database keeps its last committed value, the connection's work is lost.
Rollback(committed, work) == committed

\* A transaction: all statements and the commit, or the rollback.
RunTxn(d, stmts, failAt) ==
    LET r == Exec(d, stmts, 1, failAt)
    IN  IF r.raised THEN [db |-> Rollback(d, r.work), raised |-> TRUE]
        ELSE [db |-> r.work, raised |-> FALSE]

Commit == [op |-> "commit"]

\* An enumeration of a finite set (the iteration order of a Python set).
RECURSIVE SetToSeq(_)
SetToSeq(S) ==
    IF S = {} THEN <<>>
    ELSE LET x == CHOOSE y \in S : TRUE IN <<x>> \o SetToSeq(S \ {x})

\* The indices of a mapping in insertion order (cluster_fragments inserts
\* them in increasing order).
RECURSIVE SortedSeq(_)
SortedSeq(S) ==
    IF S = {} THEN <<>>
    ELSE LET x == CHOOSE y \in S : \A z \in S : y <= z
         IN  <<x>> \o SortedSeq(S \ {x})

RECURSIVE SumSeq(_)
SumSeq(q) == IF q = <<>> THEN 0 ELSE Head(q) + SumSeq(Tail(q))

RECURSIVE Flatten(_)
Flatten(qq) == IF qq = <<>> THEN <<>> ELSE Head(qq) \o Flatten(Tail(qq))

\* SelectSeq with a predicate over the index.
RECURSIVE FilterIdx(_, _, _)
FilterIdx(idx, mapping, eid) ==
    IF idx = <<>> THEN <<>>
    ELSE (IF mapping[Head(idx)].entity_id = eid THEN <<Head(idx)>> ELSE <<>>)
         \o FilterIdx(Tail(idx), mapping, eid)

\* The entity ids of a mapping in order of first appearance (the keys of
\* grouped, lines 74-84).
RECURSIVE FirstSeen(_, _, _)
FirstSeen(idx, mapping, seen) ==
    IF idx = <<>> THEN <<>>
    ELSE LET e == mapping[Head(idx)].entity_id
         IN  IF e \in seen THEN FirstSeen(Tail(idx), mapping, seen)
             ELSE <<e>> \o FirstSeen(Tail(idx), mapping, seen \cup {e})

RECURSIVE Gcd(_, _)
Gcd(a, b) == IF b = 0 THEN a ELSE Gcd(b, a % b)

\* Mutant: the highest member confidence instead of the mean.
MaxConfidence(confs) ==
    [num |-> CHOOSE c \in {confs[k] : k \in 1..Len(confs)} :
                 \A k \in 1..Len(confs) : confs[k] <= c,
     den |-> 1]

\* sum(confidences) / len(confidences), in hundredths, as a reduced fraction.
Mean(confs) ==
    LET t == SumSeq(confs)
        n == Len(confs)
        g == Gcd(t, n)
    IN  [num |-> t \div g, den |-> n \div g]

(***************************************************************************)
(* A store state st is [db, now, nextUuid]; a handler yields the next      *)
(* state and what the caller gets: outcome "returned" with the returned    *)
(* pair (ok, eid / count / err), or outcome "raised".                      *)
(***************************************************************************)
NoEid == <<>>

Returned(ok, eid, count, err) ==
    [outcome |-> "returned", ok |-> ok, eid |-> eid, count |-> count, err |-> err]

Raised == [outcome |-> "raised", ok |-> FALSE, eid |-> NoEid, count |-> 0,
           err |-> "exception"]

\* Line 94: f"{eid}-{uuid.uuid4()}"
FragId(eid, uuid) == [prefix |-> eid, uuid |-> uuid]

\* Line 192: f"E-{uuid.uuid4()}"
CascadeErasureId(uuid) == [prefix |-> <<"E", "-">>, uuid |-> uuid]

\* Line 245: f"ER-{uuid.uuid4()}"
ErasureId(uuid) == [prefix |-> <<"E", "R", "-">>, uuid |-> uuid]

\* save_mapping, lines 86-101, for the groups from the k-th on: the INSERT
\* of the entity row, then of its fragment rows; uuid is the next fresh one.
RECURSIVE InsertStmts(_, _, _, _, _, _, _)
InsertStmts(keys, k, idx, mapping, frags, ts, uuid) ==
    IF k > Len(keys) THEN <<>>
    ELSE LET eid == keys[k]
             members == FilterIdx(idx, mapping, eid)
             n == Len(members)
             confs == [j \in 1..n |-> mapping[members[j]].confidence]
             entity == [entity_id |-> eid, fragment_count |-> n,
                        confidence |-> Mean(confs),
                        created_at |-> ts, updated_at |-> ts]
             FragRow(j) ==
                 [frag_id |-> FragId(eid, uuid + j - 1), entity_id |-> eid,
                  frag_type |-> frags[members[j]].type,
                  value |-> frags[members[j]].value,
                  source |-> frags[members[j]].source,
                  confidence |-> mapping[members[j]].confidence,
                  created_at |-> ts]
         IN  <<[op |-> "insert_entity", row |-> entity]>>
             \o [j \in 1..n |-> [op |-> "insert_fragment", row |-> FragRow(j)]]
             \o InsertStmts(keys, k + 1, idx, mapping, frags, ts, uuid + n)

\* Mutant: only the entity rows are cleared, the old fragment rows stay.
ClearStmtsEntitiesOnly(ids) ==
    [k \in 1..Len(ids) |-> [op |-> "delete_entity", entity_id |-> ids[k]]]

\* save_mapping, lines 67-71: per entity id of the mapping, DELETE its
\* fragments and its entity row.
ClearStmts(ids) ==
    Flatten([k \in 1..Len(ids) |->
                <<[op |-> "delete_fragments_of", entity_id |-> ids[k]],
                  [op |-> "delete_entity", entity_id |-> ids[k]]>>])

\* The statements of save_mapping(mapping, fragments), lines 67-103.
SaveStmts(mapping, frags, ts, uuid) ==
    LET idx == SortedSeq(DOMAIN mapping)
    IN  ClearStmts(SetToSeq(MappingEntityIds(mapping)))
        \o InsertStmts(FirstSeen(idx, mapping, {}), 1, idx, mapping, frags, ts, uuid)
        \o <<Commit>>

\* The uuid4() calls made before the statement at failAt is reached.
UuidsDrawn(stmts, failAt) ==
    LET upto == IF failAt = 0 \/ failAt > Len(stmts) THEN Len(stmts) ELSE failAt
    IN  Cardinality({k \in 1..upto :
                        stmts[k].op \in {"insert_fragment", "insert_erasure"}})

\* What save_mapping does when the persistence layer raises: there is no
\* try/except, the exception reaches the caller (and the connection, never
\* committed, is dropped).
SaveFailure == Raised

\* save_mapping(mapping, fragments)
SaveCall(st, mapping, frags, failAt) ==
    LET stmts == SaveStmts(mapping, frags, st.now, st.nextUuid)
        t == RunTxn(st.db, stmts, failAt)
    IN  [st |-> [db |-> t.db, now |-> st.now + 1,
                 nextUuid |-> st.nextUuid + UuidsDrawn(stmts, failAt)],
         res |-> IF t.raised THEN SaveFailure ELSE Returned(TRUE, NoEid, 0, "")]

(***************************************************************************)
(* delete_fragment(frag_id, requested_by, reason)                          *)
(***************************************************************************)
\* Mutant: the WHERE clause left out, the entity of some fragment row is read.
DeleteFragmentReadAny(d, fid) ==
    IF d.fragments = {} THEN NoEid ELSE (CHOOSE f \in d.fragments : TRUE).entity_id

\* Lines 171-178: the entity_id of the fragment row; NoEid when there is none.
DeleteFragmentRead(d, fid) ==
    LET rows == {f \in d.fragments : f.frag_id = fid}
    IN  IF rows = {} THEN NoEid ELSE (CHOOSE f \in rows : TRUE).entity_id

\* Mutant: the recount is compared with 1: the entity row goes while one
\* fragment row is left.
DeleteFragmentBranchOffByOne(work, eid, requested_by, reason, ts, uuid) ==
    LET new_count == CountFragments(work, eid)
    IN  IF new_count <= 1
        THEN <<[op |-> "delete_entity", entity_id |-> eid],
               [op |-> "insert_erasure",
                row |-> [erasure_id |-> CascadeErasureId(uuid), entity_id |-> eid,
                         fragments_deleted |-> 1, requested_by |-> requested_by,
                         reason |-> reason, timestamp |-> ts]]>>
        ELSE <<[op |-> "update_entity", entity_id |-> eid,
                fragment_count |-> new_count, updated_at |-> ts]>>

\* Mutant: the count is taken before the fragment is deleted.
DeleteFragmentBranchStaleCount(work, eid, requested_by, reason, ts, uuid) ==
    LET new_count == CountFragments(work, eid) + 1
    IN  <<[op |-> "update_entity", entity_id |-> eid,
           fragment_count |-> new_count, updated_at |-> ts]>>

\* Mutant: the last fragment goes, the entity row stays with a count of 0.
DeleteFragmentBranchNoCascade(work, eid, requested_by, reason, ts, uuid) ==
    <<[op |-> "update_entity", entity_id |-> eid,
       fragment_count |-> CountFragments(work, eid), updated_at |-> ts]>>

\* Mutant: the UPDATE sets the count and leaves updated_at as it was.
DeleteFragmentBranchKeepsUpdatedAt(work, eid, requested_by, reason, ts, uuid) ==
    LET new_count == CountFragments(work, eid)
    IN  IF new_count = 0
        THEN <<[op |-> "delete_entity", entity_id |-> eid],
               [op |-> "insert_erasure",
                row |-> [erasure_id |-> CascadeErasureId(uuid), entity_id |-> eid,
                         fragments_deleted |-> 1, requested_by |-> requested_by,
                         reason |-> reason, timestamp |-> ts]]>>
        ELSE <<[op |-> "update_entity", entity_id |-> eid,
                fragment_count |-> new_count,
                updated_at |-> (CHOOSE e \in work.entities :
                                    e.entity_id = eid).updated_at]>>

\* Lines 187-204: after the DELETE of the fragment, on the recount.
DeleteFragmentBranch(work, eid, requested_by, reason, ts, uuid) ==
    LET new_count == CountFragments(work, eid)
    IN  IF new_count = 0
        THEN <<[op |-> "delete_entity", entity_id |-> eid],
               [op |-> "insert_erasure",
                row |-> [erasure_id |-> CascadeErasureId(uuid), entity_id |-> eid,
                         fragments_deleted |-> 1, requested_by |-> requested_by,
                         reason |-> reason, timestamp |-> ts]]>>
        ELSE <<[op |-> "update_entity", entity_id |-> eid,
                fragment_count |-> new_count, updated_at |-> ts]>>

\* Lines 181-213, with entity_id as read at line 178.
DeleteFragmentTxn(st, fid, eid, requested_by, reason, failAt) ==
    LET s1 == [op |-> "delete_fragment", frag_id |-> fid]
        stmts == <<s1>>
                 \o DeleteFragmentBranch(Apply(st.db, s1), eid, requested_by,
                                         reason, st.now, st.nextUuid)
                 \o <<Commit>>
        t == RunTxn(st.db, stmts, failAt)
        \* utcnow() is read at line 193 (after the DELETE of the entity) or
        \* at line 204 (before the UPDATE)
        cascade == stmts[2].op = "delete_entity"
        reached == failAt = 0 \/ failAt > (IF cascade THEN 2 ELSE 1)
    IN  [st |-> [db |-> t.db,
                 now |-> IF reached THEN st.now + 1 ELSE st.now,
                 nextUuid |-> st.nextUuid + UuidsDrawn(stmts, failAt)],
         res |-> IF t.raised THEN Returned(FALSE, NoEid, 0, "exception")
                 ELSE Returned(TRUE, eid, 0, "")]

\* Mutant: the check of line 174 left out.
DeleteFragmentCallNoCheck(st, fid, requested_by, reason, failAt) ==
    DeleteFragmentTxn(st, fid, DeleteFragmentRead(st.db, fid), requested_by,
                      reason, failAt)

\* delete_fragment(frag_id, requested_by, reason)
DeleteFragmentCall(st, fid, requested_by, reason, failAt) ==
    LET eid == DeleteFragmentRead(st.db, fid)
    IN  IF eid = NoEid
        THEN [st |-> st, res |-> Returned(FALSE, NoEid, 0, "Fragment not found")]
        ELSE DeleteFragmentTxn(st, fid, eid, requested_by, reason, failAt)

(***************************************************************************)
(* erase_entity(entity_id, requested_by, reason)                           *)
(***************************************************************************)
\* Mutant: the fragments are left to ON DELETE CASCADE, which SQLite does
\* not enforce without PRAGMA foreign_keys.
EraseEntityStmtsNoFragmentDelete(eid, frag_count, requested_by, reason, ts, uuid) ==
    <<[op |-> "delete_entity", entity_id |-> eid],
      [op |-> "insert_erasure",
       row |-> [erasure_id |-> ErasureId(uuid), entity_id |-> eid,
                fragments_deleted |-> frag_count, requested_by |-> requested_by,
                reason |-> reason, timestamp |-> ts]],
      Commit>>

\* Mutant: one erasure record for the fragments and one for the entity row.
EraseEntityStmtsTwoRecords(eid, frag_count, requested_by, reason, ts, uuid) ==
    <<[op |-> "delete_fragments_of", entity_id |-> eid],
      [op |-> "insert_erasure",
       row |-> [erasure_id |-> ErasureId(uuid), entity_id |-> eid,
                fragments_deleted |-> frag_count, requested_by |-> requested_by,
                reason |-> reason, timestamp |-> ts]],
      [op |-> "delete_entity", entity_id |-> eid],
      [op |-> "insert_erasure",
       row |-> [erasure_id |-> ErasureId(uuid + 1), entity_id |-> eid,
                fragments_deleted |-> 0, requested_by |-> requested_by,
                reason |-> reason, timestamp |-> ts]],
      Commit>>

\* Lines 238-252, with frag_count as read at line 236.
EraseEntityStmts(eid, frag_count, requested_by, reason, ts, uuid) ==
    <<[op |-> "delete_fragments_of", entity_id |-> eid],
      [op |-> "delete_entity", entity_id |-> eid],
      [op |-> "insert_erasure",
       row |-> [erasure_id |-> ErasureId(uuid), entity_id |-> eid,
                fragments_deleted |-> frag_count, requested_by |-> requested_by,
                reason |-> reason, timestamp |-> ts]],
      Commit>>

EraseEntityTxn(st, eid, frag_count, requested_by, reason, failAt) ==
    LET stmts == EraseEntityStmts(eid, frag_count, requested_by, reason,
                                  st.now, st.nextUuid)
        t == RunTxn(st.db, stmts, failAt)
        reached == failAt = 0 \/ failAt > 2
    IN  [st |-> [db |-> t.db,
                 now |-> IF reached THEN st.now + 1 ELSE st.now,
                 nextUuid |-> st.nextUuid + UuidsDrawn(stmts, failAt)],
         res |-> IF t.raised THEN Returned(FALSE, NoEid, 0, "")
                 ELSE Returned(TRUE, NoEid, frag_count, "")]

\* Mutant: the check of line 230 left out.
EraseEntityCallNoCheck(st, eid, requested_by, reason, failAt) ==
    EraseEntityTxn(st, eid, CountFragments(st.db, eid), requested_by, reason,
                   failAt)

\* erase_entity(entity_id, requested_by, reason)
EraseEntityCall(st, eid, requested_by, reason, failAt) ==
    IF CountEntities(st.db, eid) = 0
    THEN [st |-> st, res |-> Returned(FALSE, NoEid, 0, "")]
    ELSE EraseEntityTxn(st, eid, CountFragments(st.db, eid), requested_by,
                        reason, failAt)

(***************************************************************************)
(* search_entities(query)                                                  *)
(***************************************************************************)
\* SQLite's LIKE: % matches any run of characters, _ any one character,
\* every other character itself, ASCII letters without regard to case.
RECURSIVE Like(_, _)
Like(pat, text) ==
    IF pat = <<>> THEN text = <<>>
    ELSE IF Head(pat) = "%"
    THEN Like(Tail(pat), text) \/ (text # <<>> /\ Like(pat, Tail(text)))
    ELSE /\ text # <<>>
         /\ (Head(pat) = "_" \/ LowerChar(Head(pat)) = LowerChar(Head(text)))
         /\ Like(Tail(pat), Tail(text))

\* Mutant: the leading % left out (a prefix match).
SearchPatternPrefix(query) == query \o <<"%">>

\* Line 146: f"%{query}%"
SearchPattern(query) == <<"%">> \o query \o <<"%">>

\* The WHERE clause of line 151.
SearchMatches(f, query) ==
    \/ Like(SearchPattern(query), f.value)
    \/ Like(SearchPattern(query), f.frag_type)

\* LIMIT 50
SearchLimit == 50

\* The rows of the SELECT DISTINCT ... JOIN of lines 147-154.
SearchRows(d, query) ==
    {e \in d.entities :
        \E f \in d.fragments : f.entity_id = e.entity_id /\ SearchMatches(f, query)}

\* ORDER BY e.updated_at DESC LIMIT 50: the most recently updated rows (ties
\* in an unspecified order).
RECURSIVE MostRecent(_, _)
MostRecent(rows, n) ==
    IF n = 0 \/ rows = {} THEN {}
    ELSE LET r == CHOOSE x \in rows : \A y \in rows : y.updated_at <= x.updated_at
         IN  {r} \cup MostRecent(rows \ {r}, n - 1)

\* search_entities(query): the entity ids of the rows returned.
SearchEntities(d, query) ==
    {e.entity_id : e \in MostRecent(SearchRows(d, query), SearchLimit)}

(***************************************************************************)
(* get_entity(entity_id)                                                   *)
(***************************************************************************)
\* Mutant: the WHERE clause of line 118 left out.
GetEntityAllFragments(d, eid) ==
    LET rows == {e \in d.entities : e.entity_id = eid}
        frs == d.fragments
    IN  IF rows = {} THEN [present |-> FALSE, entity |-> {}, fragments |-> {}]
        ELSE [present |-> TRUE,
              entity |-> {[e EXCEPT !.fragment_count = Cardinality(frs)] : e \in rows},
              fragments |-> frs]

\* None when there is no entity row; else the row, with fragment_count set
\* to the number of fragment rows returned (line 121), and those rows.
GetEntity(d, eid) ==
    LET rows == {e \in d.entities : e.entity_id = eid}
        frs == {f \in d.fragments : f.entity_id = eid}
    IN  IF rows = {} THEN [present |-> FALSE, entity |-> {}, fragments |-> {}]
        ELSE [present |-> TRUE,
              entity |-> {[e EXCEPT !.fragment_count = Cardinality(frs)] : e \in rows},
              fragments |-> frs]

(***************************************************************************)
(* get_statistics()                                                        *)
(***************************************************************************)
\* round(n / d, 2), in hundredths.
RoundQuotient2(n, d) == Round2([m |-> n, t |-> 2 * d])

\* Mutant: the quotient taken the wrong way round.
GetStatisticsInvertedAvg(d) ==
    LET total_entities == Cardinality(d.entities)
        total_fragments == Cardinality(d.fragments)
    IN  [total_entities |-> total_entities,
         total_fragments |-> total_fragments,
         avg_fragments_per_entity |->
             IF total_fragments > 0
             THEN RoundQuotient2(total_entities, total_fragments) ELSE 0,
         erasures_performed |-> Cardinality(d.erasures)]

\* Lines 268-285; avg_fragments_per_entity in hundredths.
GetStatistics(d) ==
    LET total_entities == Cardinality(d.entities)
        total_fragments == Cardinality(d.fragments)
        erasures_performed == Cardinality(d.erasures)
    IN  [total_entities |-> total_entities,
         total_fragments |-> total_fragments,
         avg_fragments_per_entity |->
             IF total_entities > 0
             THEN RoundQuotient2(total_fragments, total_entities) ELSE 0,
         erasures_performed |-> erasures_performed]

(***************************************************************************)
(* AuditLogger (security/audit_logger.py).  The directory                  *)
(* outputs/audit_logs is a function from the timestamp in a file's name    *)
(* (seconds) to the entry the file holds.                                  *)
(***************************************************************************)
\* Lines 16, 20, 24, 28: the entry of a log operation; kwargs are its
\* keyword arguments, utc the reading of utcnow() (the second and a
\* counter for the fraction).
AuditEntry(operation, utc, kwargs) ==
    [operation |-> operation, timestamp_utc |-> utc, kwargs |-> kwargs]

\* _write, lines 9-12: open(LOG_DIR / f"audit_{ts}.json", "w") creates the
\* file or truncates the one of that name, json.dump fills it.
AuditWrite(files, ts, entry) == (ts :> entry) @@ files

\* sorted(LOG_DIR.glob("audit_*.json"), reverse=True): the names, latest
\* timestamp first.
RECURSIVE SortedReverse(_)
SortedReverse(S) ==
    IF S = {} THEN <<>>
    ELSE LET x == CHOOSE y \in S : \A z \in S : z <= y
         IN  <<x>> \o SortedReverse(S \ {x})

\* get_recent_logs(limit), lines 31-33.
GetRecentLogs(files, limit) ==
    LET logs == SortedReverse(DOMAIN files)
        n == IF limit < Len(logs) THEN limit ELSE Len(logs)
    IN  [i \in 1..n |-> files[logs[i]]]

(***************************************************************************)
(* State                                                                   *)
(***************************************************************************)
VARIABLES
    db,        \* the committed content of layer1_mapper.db
    now,       \* the next value datetime.utcnow() returns
    nextUuid,  \* the next value uuid.uuid4() returns
    hist,      \* the store calls completed so far, oldest first
    callers,   \* the calls in flight of the concurrent callers
    base,      \* the store state when the first concurrent call began
    input,     \* the fragment list given to the linker
    runs,      \* the linker's results so far: threshold -> mapping
    found,     \* the last search: its query and the entity ids returned
    seen,      \* the last get_statistics or get_entity: its result
    logdir,    \* the files of outputs/audit_logs: timestamp -> entry
    clock,     \* the wall clock, in seconds, that names the audit files
    written,   \* the audit log operations so far, oldest first
    ui,        \* the button handler of app.py in progress
    scanned,   \* the last scanner call: its arguments and its outcome
    annotated  \* the linker's annotated tables so far: threshold -> table

vars == <<db, now, nextUuid, hist, callers, base, input, runs, found, seen, logdir, clock, written, ui, scanned, annotated>>

St == [db |-> db, now |-> now, nextUuid |-> nextUuid]

(***************************************************************************)
(* Inputs                                                                  *)
(***************************************************************************)
EMAIL_ADDRESS == <<"E", "M", "A", "I", "L", "_", "A", "D", "D", "R", "E", "S", "S">>
PERSON == <<"P", "E", "R", "S", "O", "N">>
CPR == <<"C", "P", "R">>

Frag(type, value) == [type |-> type, value |-> value, source |-> <<"f">>]

\* The fragments a scan may find.
ScanPool == {Frag(EMAIL_ADDRESS, <<"a", "b">>), Frag(PERSON, <<"b", "a">>)}

\* The linking threshold of a scan, in percent: the default of
\* cluster_fragments.
ScanThreshold == 85

\* The fragment lists of length 1..n over a pool.
Lists(pool, n) == UNION {[1..k -> pool] : k \in 1..n}

NoFragId == [prefix |-> NoEid, uuid |-> 0]

\* No search made yet.
NoSearch == [query |-> <<>>, ids |-> {}, at |-> EmptyDb]

\* No get_statistics or get_entity made yet.
NoRead == [op |-> "none", entity_id |-> NoEid, at |-> EmptyDb]

\* No scanner call made yet.
NoScan == [op |-> "none", arg |-> <<>>, res |-> [outcome |-> "none", fragments |-> <<>>]]

\* outputs/audit_logs with no file in it.
NoFiles == [ts \in {} |-> [operation |-> "none"]]

\* No button pressed.
NoHandler ==
    [pc |-> "idle", op |-> "none", entity_id |-> NoEid,
     res |-> Returned(FALSE, NoEid, 0, ""), post |-> EmptyDb, audit |-> "none",
     kwargs |-> <<>>]

\* A caller with no call begun.
NoCall ==
    [pc |-> "idle", op |-> "none", mapping |-> EmptyMapping, frags |-> <<>>,
     frag_id |-> NoFragId, entity_id |-> NoEid, read_eid |-> NoEid,
     read_count |-> 0, res |-> Returned(FALSE, NoEid, 0, "")]

\* A completed call as kept in hist.
CallRecord(op, mapping, frags, frag_id, entity_id, fault, r) ==
    [op |-> op, mapping |-> mapping, frags |-> frags, frag_id |-> frag_id,
     entity_id |-> entity_id, fault |-> fault, res |-> r.res,
     pre |-> db, post |-> r.st.db]

\* The store state after a call, and the call appended to hist.
Completes(r, rec) ==
    /\ db' = r.st.db
    /\ now' = r.st.now
    /\ nextUuid' = r.st.nextUuid
    /\ hist' = Append(hist, rec)

Requester == "system"
Reason == "GDPR Article 17"

(***************************************************************************)
(* Sequential callers (the reference execution model: one call at a time). *)
(***************************************************************************)
Init ==
    /\ db = EmptyDb
    /\ now = 0
    /\ nextUuid = 0
    /\ hist = <<>>
    /\ callers = <<NoCall, NoCall>>
    /\ base = St
    /\ input = <<>>
    /\ runs = <<>>
    /\ found = NoSearch
    /\ seen = NoRead
    /\ logdir = NoFiles
    /\ clock = 0
    /\ written = <<>>
    /\ ui = NoHandler
    /\ scanned = NoScan
    /\ annotated = <<>>

\* A scan as app.py runs it (lines 438-458): the fragments found, linked at
\* a threshold; the mapping is saved when it is not empty.
Scan(frs, pct) == [frags |-> frs, pct |-> pct, mapping |-> ClusterFragments(frs, pct)]

\* The scans of the sequential callers.
Scans ==
    {sc \in {Scan(frs, ScanThreshold) : frs \in Lists(ScanPool, MaxScan)} :
        DOMAIN sc.mapping # {}}

\* mapper.save_mapping(mapping, fragments), app.py line 458.
Save(mapping, frs, fault) ==
    /\ Len(hist) < MaxOps
    /\ LET st == St
           stmts == SaveStmts(mapping, frs, now, nextUuid)
       IN  /\ fault <= Len(stmts)
           /\ LET r == SaveCall(st, mapping, frs, fault)
              IN  Completes(r, CallRecord("save", mapping, frs, NoFragId, NoEid, fault, r))
    /\ UNCHANGED <<callers, base, input, runs, found, seen, logdir, clock, written, ui, scanned, annotated>>

\* The frag ids a caller may pass: those stored now or before the last call
\* (what a page rendered before that call still shows).
FragIdArgs ==
    {f.frag_id : f \in db.fragments}
    \cup (IF hist = <<>> THEN {}
          ELSE {f.frag_id : f \in hist[Len(hist)].pre.fragments})

DeleteFragment(fid, fault) ==
    /\ Len(hist) < MaxOps
    /\ fault <= (IF DeleteFragmentRead(db, fid) = NoEid THEN 0
                 ELSE IF CountFragments(db, DeleteFragmentRead(db, fid)) = 1
                 THEN 4 ELSE 3)
    /\ LET r == DeleteFragmentCall(St, fid, Requester, "Manual deletion", fault)
       IN  Completes(r, CallRecord("delete_fragment", EmptyMapping, <<>>, fid,
                                   NoEid, fault, r))
    /\ UNCHANGED <<callers, base, input, runs, found, seen, logdir, clock, written, ui, scanned, annotated>>

\* The entity ids a caller may pass: those stored now or before the last
\* call.
EntityIdArgs ==
    {e.entity_id : e \in db.entities}
    \cup (IF hist = <<>> THEN {}
          ELSE {e.entity_id : e \in hist[Len(hist)].pre.entities})

EraseEntity(eid, fault) ==
    /\ Len(hist) < MaxOps
    /\ fault <= (IF CountEntities(db, eid) = 0 THEN 0 ELSE 4)
    /\ LET r == EraseEntityCall(St, eid, Requester, Reason, fault)
       IN  Completes(r, CallRecord("erase_entity", EmptyMapping, <<>>, NoFragId,
                                   eid, fault, r))
    /\ UNCHANGED <<callers, base, input, runs, found, seen, logdir, clock, written, ui, scanned, annotated>>

Next ==
    \/ \E sc \in Scans : Save(sc.mapping, sc.frags, 0)
    \/ \E fid \in FragIdArgs : DeleteFragment(fid, 0)
    \/ \E eid \in EntityIdArgs : EraseEntity(eid, 0)

Spec == Init /\ [][Next]_vars

(***************************************************************************)
(* Sequential callers over a persistence layer that may raise at any       *)
(* statement of a call (fault k: the k-th statement of the transaction     *)
(* raises; the last statement is the commit).                              *)
(***************************************************************************)
\* The most statements one transaction of the model issues (a save of
\* MaxScan fragments in MaxScan groups).
MaxStmts == 4 * MaxScan + 1

\* A behaviour is followed up to and including its first failure.
NoFailureYet == \A k \in 1..Len(hist) : hist[k].fault = 0

NextFail ==
    /\ NoFailureYet
    /\ Len(hist) < MaxFailOps
    /\ \/ \E sc \in Scans, k \in 0..MaxStmts : Save(sc.mapping, sc.frags, k)
       \/ \E fid \in FragIdArgs, k \in 0..MaxStmts : DeleteFragment(fid, k)
       \/ \E eid \in EntityIdArgs, k \in 0..MaxStmts : EraseEntity(eid, k)

SpecFail == Init /\ [][NextFail]_vars

(***************************************************************************)
(* Two concurrent callers, one call each, on a store that earlier scans    *)
(* filled.  Each caller has its own connection.  A SELECT issued before    *)
(* the connection's first INSERT/UPDATE/DELETE runs outside any            *)
(* transaction and sees the committed database; the transaction opens at   *)
(* the first DELETE or INSERT and SQLite lets one connection write at a     *)
(* time, so a transaction is one step.                                     *)
(***************************************************************************)
Threads == {1, 2}

AllIdle == \A t \in Threads : callers[t].pc = "idle"

\* The first call to begin fixes the state the calls are compared from.
Begins == base' = IF AllIdle THEN St ELSE base

\* A scan saved before the callers begin.
Seed(sc) ==
    /\ AllIdle
    /\ Len(hist) < MaxSeeds
    /\ Save(sc.mapping, sc.frags, 0)

\* save_mapping issues no SELECT: the whole call is its transaction.
ConcSave(t, sc) ==
    /\ callers[t].pc = "idle"
    /\ LET r == SaveCall(St, sc.mapping, sc.frags, 0)
       IN  /\ db' = r.st.db /\ now' = r.st.now /\ nextUuid' = r.st.nextUuid
           /\ callers' = [callers EXCEPT ![t] =
                  [NoCall EXCEPT !.pc = "done", !.op = "save",
                                 !.mapping = sc.mapping, !.frags = sc.frags,
                                 !.res = r.res]]
    /\ Begins
    /\ UNCHANGED <<hist, input, runs, found, seen, logdir, clock, written, ui, scanned, annotated>>

\* delete_fragment, lines 171-178: the SELECT of the fragment's entity_id.
ConcDeleteRead(t, fid) ==
    /\ callers[t].pc = "idle"
    /\ LET eid == DeleteFragmentRead(db, fid)
       IN  callers' = [callers EXCEPT ![t] =
               IF eid = NoEid
               THEN [NoCall EXCEPT !.pc = "done", !.op = "delete_fragment",
                                   !.frag_id = fid,
                                   !.res = Returned(FALSE, NoEid, 0, "Fragment not found")]
               ELSE [NoCall EXCEPT !.pc = "txn", !.op = "delete_fragment",
                                   !.frag_id = fid, !.read_eid = eid]]
    /\ Begins
    /\ UNCHANGED <<db, now, nextUuid, hist, input, runs, found, seen, logdir, clock, written, ui, scanned, annotated>>

\* delete_fragment, lines 181-208: the transaction.
ConcDeleteTxn(t) ==
    /\ callers[t].pc = "txn" /\ callers[t].op = "delete_fragment"
    /\ LET c == callers[t]
           r == DeleteFragmentTxn(St, c.frag_id, c.read_eid, Requester,
                                  "Manual deletion", 0)
       IN  /\ db' = r.st.db /\ now' = r.st.now /\ nextUuid' = r.st.nextUuid
           /\ callers' = [callers EXCEPT ![t] = [c EXCEPT !.pc = "done", !.res = r.res]]
    /\ UNCHANGED <<hist, base, input, runs, found, seen, logdir, clock, written, ui, scanned, annotated>>

\* erase_entity, lines 227-232: the SELECT of whether the entity exists.
ConcEraseExists(t, eid) ==
    /\ callers[t].pc = "idle"
    /\ callers' = [callers EXCEPT ![t] =
           IF CountEntities(db, eid) = 0
           THEN [NoCall EXCEPT !.pc = "done", !.op = "erase_entity",
                               !.entity_id = eid,
                               !.res = Returned(FALSE, NoEid, 0, "")]
           ELSE [NoCall EXCEPT !.pc = "count", !.op = "erase_entity",
                               !.entity_id = eid]]
    /\ Begins
    /\ UNCHANGED <<db, now, nextUuid, hist, input, runs, found, seen, logdir, clock, written, ui, scanned, annotated>>

\* erase_entity, lines 235-236: the SELECT of the fragment count.
ConcEraseCount(t) ==
    /\ callers[t].pc = "count"
    /\ callers' = [callers EXCEPT ![t] =
           [@ EXCEPT !.pc = "txn",
                     !.read_count = CountFragments(db, callers[t].entity_id)]]
    /\ UNCHANGED <<db, now, nextUuid, hist, base, input, runs, found, seen, logdir, clock, written, ui, scanned, annotated>>

\* erase_entity, lines 238-254: the transaction.
ConcEraseTxn(t) ==
    /\ callers[t].pc = "txn" /\ callers[t].op = "erase_entity"
    /\ LET c == callers[t]
           r == EraseEntityTxn(St, c.entity_id, c.read_count, Requester, Reason, 0)
       IN  /\ db' = r.st.db /\ now' = r.st.now /\ nextUuid' = r.st.nextUuid
           /\ callers' = [callers EXCEPT ![t] = [c EXCEPT !.pc = "done", !.res = r.res]]
    /\ UNCHANGED <<hist, base, input, runs, found, seen, logdir, clock, written, ui, scanned, annotated>>

NextConc ==
    \/ \E sc \in Scans : Seed(sc)
    \/ \E t \in Threads, sc \in Scans : ConcSave(t, sc)
    \/ \E t \in Threads, fid \in {f.frag_id : f \in db.fragments} : ConcDeleteRead(t, fid)
    \/ \E t \in Threads : ConcDeleteTxn(t)
    \/ \E t \in Threads, eid \in {e.entity_id : e \in db.entities} : ConcEraseExists(t, eid)
    \/ \E t \in Threads : ConcEraseCount(t)
    \/ \E t \in Threads : ConcEraseTxn(t)

SpecConc == Init /\ [][NextConc]_vars

\* A call run alone, start to end, from store state st.
SerialCall(st, c) ==
    CASE c.op = "save" -> SaveCall(st, c.mapping, c.frags, 0)
      [] c.op = "delete_fragment" ->
             DeleteFragmentCall(st, c.frag_id, Requester, "Manual deletion", 0)
      [] OTHER -> EraseEntityCall(st, c.entity_id, Requester, Reason, 0)

\* The store and the results of caller t's call run before caller u's.
Serial(t, u) ==
    LET first == SerialCall(base, callers[t])
        second == SerialCall(first.st, callers[u])
    IN  [db |-> second.st.db, res |-> [x \in Threads |->
                                         IF x = t THEN first.res ELSE second.res]]

\* The entity ids a call touches, in the store the calls began from.
Touches(c) ==
    CASE c.op = "save" -> MappingEntityIds(c.mapping)
      [] c.op = "delete_fragment" -> {DeleteFragmentRead(base.db, c.frag_id)} \ {NoEid}
      [] OTHER -> {c.entity_id}

BothDone == \A t \in Threads : callers[t].pc = "done"

\* C7: two concurrent calls among save, delete_fragment and erase_entity
\* that touch the same entity id do not interleave: the final store, the
\* results returned and the erasure records written are those of the two
\* calls run one after the other in some order.
ConcurrentCallsSerialize ==
    (BothDone /\ Touches(callers[1]) \cap Touches(callers[2]) # {}) =>
        [db |-> db, res |-> [x \in Threads |-> callers[x].res]]
            \in {Serial(1, 2), Serial(2, 1)}

(***************************************************************************)
(* The linker alone: a fragment list, linked at several thresholds.        *)
(***************************************************************************)
\* The values of the fragments given to the linker: blank, equal up to case
\* and surrounding blanks, and of similarity 0.8, 0.67, 0.5 and 0.4.
LinkerPool ==
    {Frag(PERSON, <<" ">>), Frag(EMAIL_ADDRESS, <<"a", "b">>),
     Frag(EMAIL_ADDRESS, <<"A", "b", " ">>), Frag(PERSON, <<"b", "a">>),
     Frag(PERSON, <<"a", "b", "b">>), Frag(PERSON, <<"b">>)}

\* The thresholds tried, in percent (app.py: threshold / 100.0).
LinkerThresholds == {40, 67, 85, 100}

InitLinker ==
    /\ db = EmptyDb
    /\ now = 0
    /\ nextUuid = 0
    /\ hist = <<>>
    /\ callers = <<NoCall, NoCall>>
    /\ base = St
    /\ input \in Lists(LinkerPool, MaxFrags) \cup {<<>>}
    /\ runs = <<>>
    /\ found = NoSearch
    /\ seen = NoRead
    /\ logdir = NoFiles
    /\ clock = 0
    /\ written = <<>>
    /\ ui = NoHandler
    /\ scanned = NoScan
    /\ annotated = <<>>

\* cluster_fragments(input, pct / 100.0)
Cluster(pct) ==
    /\ pct \notin DOMAIN runs
    /\ runs' = (pct :> ClusterFragments(input, pct)) @@ runs
    /\ annotated' = (pct :> AnnotatedTable(input, pct)) @@ annotated
    /\ UNCHANGED <<db, now, nextUuid, hist, callers, base, input, found, seen,
                   logdir, clock, written, ui, scanned>>

NextLinker == \E pct \in LinkerThresholds : Cluster(pct)

SpecLinker == InitLinker /\ [][NextLinker]_vars

\* The number of distinct entity ids of a mapping.
NumEntities(mapping) == Cardinality(MappingEntityIds(mapping))

\* The number of fragments a mapping assigns.
NumAssigned(mapping) == Cardinality(DOMAIN mapping)

\* C9: for a fixed fragment list, a lower threshold never yields more
\* distinct entity ids than a higher one, and never a smaller average
\* cluster size (assigned fragments divided by entities).
ThresholdMonotone ==
    \A lo \in DOMAIN runs, hi \in DOMAIN runs :
        lo <= hi =>
            /\ NumEntities(runs[lo]) <= NumEntities(runs[hi])
            /\ NumAssigned(runs[lo]) * NumEntities(runs[hi])
                   >= NumAssigned(runs[hi]) * NumEntities(runs[lo])
            /\ (NumEntities(runs[lo]) = 0) = (NumEntities(runs[hi]) = 0)

\* C9 witness: three fragments that are three entities at one threshold and
\* one entity at a lower one.
ThresholdMonotoneWitness ==
    \E lo \in DOMAIN runs, hi \in DOMAIN runs :
        /\ lo < hi
        /\ Len(input) = 3
        /\ NumEntities(runs[lo]) = 1
        /\ NumEntities(runs[hi]) = 3

(***************************************************************************)
(* Search over a store that scans filled.                                  *)
(***************************************************************************)
SearchPool ==
    {Frag(EMAIL_ADDRESS, <<"a", "b">>), Frag(PERSON, <<"B", "a">>),
     Frag(CPR, <<"e">>), Frag(EMAIL_ADDRESS, <<"a", "_">>)}

SearchScans ==
    {sc \in {Scan(frs, ScanThreshold) : frs \in Lists(SearchPool, MaxScan)} :
        DOMAIN sc.mapping # {}}

\* The queries a user types (app.py line 644 passes any non-empty text).
Queries == {<<"b">>, <<"a", "b">>, <<"a">>, <<"e">>, <<"_">>}

\* mapper.search_entities(query), app.py line 644.
Search(query) ==
    /\ found' = [query |-> query, ids |-> SearchEntities(db, query), at |-> db]
    /\ UNCHANGED <<db, now, nextUuid, hist, callers, base, input, runs,
                   seen, logdir, clock, written, ui, scanned, annotated>>

NextSearch ==
    \/ \E sc \in SearchScans : Seed(sc)
    \/ \E q \in Queries : Search(q)

SpecSearch == Init /\ [][NextSearch]_vars

\* query occurs in text as a substring.
Contains(text, query) ==
    \E i \in 1..(Len(text) - Len(query) + 1) :
        SubSeq(text, i, i + Len(query) - 1) = query

\* The stored fragments whose value holds the query as a substring.
Holders(d, query) == {f \in d.fragments : Contains(f.value, query)}

Searched == found.query # <<>>

OtherMatch(d, query, eid) ==
    \E f \in d.fragments : f.entity_id # eid /\ SearchMatches(f, query)

Calls == 1..Len(hist)

IsSave(c) == c.op = "save"
IsDelete(c) == c.op = "delete_fragment"
IsErase(c) == c.op = "erase_entity"

\* The entity a stored fragment id belongs to in d (NoEid: not stored).
OwnerOf(d, fid) == DeleteFragmentRead(d, fid)

HasEntity(d, eid) == \E e \in d.entities : e.entity_id = eid

\* No row of the entity is left in d.
Gone(d, eid) == ~HasEntity(d, eid) /\ CountFragments(d, eid) = 0

\* The erasure records a call added.
Added(c) == c.post.erasures \ c.pre.erasures

\* C1: every entity row's fragment_count equals the number of fragment rows
\* whose entity_id is that entity, after any sequence of save,
\* delete_fragment and erase_entity calls.
CountInvariant ==
    \A e \in db.entities : e.fragment_count = CountFragments(db, e.entity_id)

\* C1 witness: a save, then a delete_fragment that left its entity with a
\* recomputed count of one.
CountInvariantWitness ==
    /\ Len(hist) >= 2
    /\ IsSave(hist[1])
    /\ \E k \in Calls :
           /\ IsDelete(hist[k]) /\ hist[k].res.ok
           /\ \E e \in db.entities :
                  /\ e.entity_id = hist[k].res.eid
                  /\ e.fragment_count = 1
                  /\ CountFragments(hist[k].pre, e.entity_id) = 2

\* The fragment_count stored for eid in d (0: no row).
StoredCount(d, eid) ==
    IF HasEntity(d, eid)
    THEN (CHOOSE e \in d.entities : e.entity_id = eid).fragment_count
    ELSE 0

SameSaveTwice(k) ==
    /\ k + 1 \in Calls
    /\ IsSave(hist[k]) /\ IsSave(hist[k + 1])
    /\ hist[k].res.ok /\ hist[k + 1].res.ok
    /\ hist[k].mapping = hist[k + 1].mapping
    /\ hist[k].frags = hist[k + 1].frags

\* C2: save(mapping, fragments) called twice in a row with the same
\* arguments leaves, for every entity id of the mapping, the fragment_count
\* and the number of stored fragment rows of a single call, and the numbers
\* of entity rows and of fragment rows do not grow on the second call.
IdempotentResave ==
    \A k \in Calls :
        SameSaveTwice(k) =>
            LET once == hist[k].post
                twice == hist[k + 1].post
            IN  /\ \A eid \in MappingEntityIds(hist[k].mapping) :
                       /\ StoredCount(twice, eid) = StoredCount(once, eid)
                       /\ CountFragments(twice, eid) = CountFragments(once, eid)
                /\ Cardinality(twice.entities) <= Cardinality(once.entities)
                /\ Cardinality(twice.fragments) <= Cardinality(once.fragments)

\* C2 witness: the same two-fragment scan saved twice in a row.
IdempotentResaveWitness ==
    \E k \in Calls :
        /\ SameSaveTwice(k)
        /\ Len(hist[k].frags) = 2
        /\ Cardinality(hist[k + 1].post.fragments) = 2

\* A save of a scan other than every scan saved before it.
NewScan(k) ==
    /\ IsSave(hist[k]) /\ hist[k].res.ok
    /\ \A j \in 1..(k - 1) : IsSave(hist[j]) => hist[j].frags # hist[k].frags

\* C3: entity ids are unique within the store: the clusters of a scan are
\* never stored under the entity id of a cluster of an earlier, different
\* scan, so a later save never replaces an entity an earlier scan stored.
EntityIdsGloballyUnique ==
    \A k \in Calls :
        NewScan(k) =>
            \A eid \in MappingEntityIds(hist[k].mapping) : ~HasEntity(hist[k].pre, eid)

\* C4: delete_fragment on the only fragment of an entity returns
\* (true, entity_id); afterwards get(entity_id) is absent, no fragment row
\* references the entity, and exactly one erasure record was added, for
\* that entity, with fragments_deleted = 1.
LastFragment(c) ==
    /\ IsDelete(c)
    /\ OwnerOf(c.pre, c.frag_id) # NoEid
    /\ CountFragments(c.pre, OwnerOf(c.pre, c.frag_id)) = 1

CascadeOnLastFragment ==
    \A k \in Calls :
        LastFragment(hist[k]) =>
            LET c == hist[k]
                eid == OwnerOf(c.pre, c.frag_id)
            IN  /\ c.res = Returned(TRUE, eid, 0, "")
                /\ ~GetEntity(c.post, eid).present
                /\ CountFragments(c.post, eid) = 0
                /\ Cardinality(Added(c)) = 1
                /\ \A x \in Added(c) : x.entity_id = eid /\ x.fragments_deleted = 1
                /\ c.pre.erasures \subseteq c.post.erasures

\* C4 witness: the last fragment of an entity was deleted while another
\* entity stayed.
CascadeOnLastFragmentWitness ==
    \E k \in Calls : LastFragment(hist[k]) /\ hist[k].post.entities # {}

\* C5: erase_entity on an existing entity with N fragments removes the N
\* fragment rows and the entity row, writes one erasure record with
\* fragments_deleted = N and returns (true, N); called again on the same id
\* it returns (false, 0).
ErasesExisting(c) == IsErase(c) /\ HasEntity(c.pre, c.entity_id)

EraseEntityComplete ==
    \A k \in Calls :
        ErasesExisting(hist[k]) =>
            LET c == hist[k]
                n == CountFragments(c.pre, c.entity_id)
            IN  /\ c.res = Returned(TRUE, NoEid, n, "")
                /\ Gone(c.post, c.entity_id)
                /\ Cardinality(c.pre.fragments \ c.post.fragments) = n
                /\ Cardinality(Added(c)) = 1
                /\ \A x \in Added(c) :
                       x.entity_id = c.entity_id /\ x.fragments_deleted = n
                /\ (k + 1 \in Calls /\ IsErase(hist[k + 1])
                    /\ hist[k + 1].entity_id = c.entity_id)
                   => /\ hist[k + 1].res = Returned(FALSE, NoEid, 0, "")
                      /\ hist[k + 1].post = hist[k + 1].pre

\* C5 witness: an entity with two fragments erased, then erased again.
EraseEntityCompleteWitness ==
    \E k \in Calls :
        /\ ErasesExisting(hist[k])
        /\ CountFragments(hist[k].pre, hist[k].entity_id) = 2
        /\ k + 1 \in Calls
        /\ IsErase(hist[k + 1])
        /\ hist[k + 1].entity_id = hist[k].entity_id

(***************************************************************************)
(* Properties of the store under persistence failures                      *)
(***************************************************************************)
\* C6: erase_entity is all-or-nothing: when the persistence layer fails at
\* any step of it, the store is left as before the call and (false, 0) is
\* returned; otherwise all rows of the entity are gone and exactly one
\* erasure record was added.
EraseAllOrNothing ==
    \A k \in Calls :
        ErasesExisting(hist[k]) =>
            LET c == hist[k]
            IN  IF c.fault # 0
                THEN c.post = c.pre /\ c.res = Returned(FALSE, NoEid, 0, "")
                ELSE /\ Gone(c.post, c.entity_id)
                     /\ Cardinality(Added(c)) = 1
                     /\ c.pre.erasures \subseteq c.post.erasures
                     /\ c.res.ok

\* C6 witness: the write of the erasure record failed, after the fragments
\* and the entity row of a two-fragment entity had been deleted.
EraseAllOrNothingWitness ==
    \E k \in Calls :
        /\ ErasesExisting(hist[k])
        /\ hist[k].fault = 3
        /\ CountFragments(hist[k].pre, hist[k].entity_id) = 2
        /\ HasEntity(db, hist[k].entity_id)

\* C8: a save that fails at the persistence layer partway through leaves
\* the store as before the call and reports a typed failure to its caller
\* instead of raising.
SaveFailureIsTyped ==
    \A k \in Calls :
        (IsSave(hist[k]) /\ hist[k].fault # 0) =>
            /\ hist[k].post = hist[k].pre
            /\ hist[k].res.outcome = "returned"
            /\ ~hist[k].res.ok

(***************************************************************************)
(* The linker on e-mail addresses (the example of the specification).      *)
(***************************************************************************)
AliceEmail ==
    <<"a", "l", "i", "c", "e", "@", "e", "x", "a", "m", "p", "l", "e", ".",
      "c", "o", "m">>

BobEmail ==
    <<"b", "o", "b", "@", "e", "x", "a", "m", "p", "l", "e", ".", "c", "o", "m">>

ExamplePool ==
    {Frag(EMAIL_ADDRESS, AliceEmail), Frag(EMAIL_ADDRESS, BobEmail)}

InitExample ==
    /\ db = EmptyDb
    /\ now = 0
    /\ nextUuid = 0
    /\ hist = <<>>
    /\ callers = <<NoCall, NoCall>>
    /\ base = St
    /\ input \in Lists(ExamplePool, MaxFrags)
    /\ runs = <<>>
    /\ found = NoSearch
    /\ seen = NoRead
    /\ logdir = NoFiles
    /\ clock = 0
    /\ written = <<>>
    /\ ui = NoHandler
    /\ scanned = NoScan
    /\ annotated = <<>>

SpecExample == InitExample /\ [][NextLinker]_vars

\* The fragment list alice@example.com, alice@example.com, bob@example.com.
AliceAliceBob ==
    /\ Len(input) = 3
    /\ input[1].value = AliceEmail
    /\ input[2].value = AliceEmail
    /\ input[3].value = BobEmail

\* C11: cluster on the values alice@example.com, alice@example.com,
\* bob@example.com (the third of similarity below 0.85 to the others) at
\* threshold 0.85 yields exactly 2 entities: the first two fragments share
\* one entity id with confidence 1.0 each, the third seeds a second entity.
AliceBobTwoEntities ==
    (AliceAliceBob /\ 85 \in DOMAIN runs) =>
        LET mapping == runs[85]
        IN  /\ Ratio(BobEmail, AliceEmail).m * 200 < 85 * Ratio(BobEmail, AliceEmail).t
            /\ DOMAIN mapping = {1, 2, 3}
            /\ NumEntities(mapping) = 2
            /\ mapping[1].entity_id = mapping[2].entity_id
            /\ mapping[1].confidence = 100
            /\ mapping[2].confidence = 100
            /\ mapping[3].entity_id # mapping[1].entity_id
            /\ mapping[3].confidence = 100

\* C11 witness: that list was linked at threshold 0.85.
AliceBobTwoEntitiesWitness ==
    /\ AliceAliceBob
    /\ 85 \in DOMAIN runs
    /\ NumEntities(runs[85]) = 2

(***************************************************************************)
(* Reads of a store that a scan filled and later calls changed.  A read    *)
(* changes nothing, so a behaviour is followed up to its first read.       *)
(***************************************************************************)
\* Longest fragment list of the scan the reads follow.
MaxReadScan == 4
\* Number of store calls before the read, the save of the scan included.
MaxReadOps == 2

\* Values of pairwise similarity 0.5 and 0.67: three entities at 0.85.
ReadPool ==
    {Frag(EMAIL_ADDRESS, <<"a", "b">>), Frag(PERSON, <<"b", "a">>),
     Frag(CPR, <<"b">>)}

ReadScans ==
    {sc \in {Scan(frs, ScanThreshold) : frs \in Lists(ReadPool, MaxReadScan)} :
        DOMAIN sc.mapping # {}}

NotRead == seen.op = "none"

\* mapper.get_statistics()
Statistics ==
    /\ NotRead
    /\ seen' = [op |-> "get_statistics", entity_id |-> NoEid, at |-> db,
                stats |-> GetStatistics(db)]
    /\ UNCHANGED <<db, now, nextUuid, hist, callers, base, input, runs, found,
                   logdir, clock, written, ui, scanned, annotated>>

\* mapper.get_entity(entity_id)
Get(eid) ==
    /\ NotRead
    /\ seen' = [op |-> "get_entity", entity_id |-> eid, at |-> db,
                entity |-> GetEntity(db, eid)]
    /\ UNCHANGED <<db, now, nextUuid, hist, callers, base, input, runs, found,
                   logdir, clock, written, ui, scanned, annotated>>

NextRead ==
    \/ /\ NotRead /\ hist = <<>>
       /\ \E sc \in ReadScans : Save(sc.mapping, sc.frags, 0)
    \/ /\ NotRead /\ hist # <<>> /\ Len(hist) < MaxReadOps
       /\ \/ \E fid \in FragIdArgs : DeleteFragment(fid, 0)
          \/ \E eid \in EntityIdArgs : EraseEntity(eid, 0)
    \/ Statistics
    \/ \E eid \in EntityIdArgs \cup {EntityId(1)} : Get(eid)

SpecRead == Init /\ [][NextRead]_vars

IsStatistics == seen.op = "get_statistics"

\* The three counts are those of the rows, and all values are zero on an
\* empty store.
StatisticsCounts ==
    LET s == seen.stats
        d == seen.at
    IN  /\ s.total_entities = Cardinality(d.entities)
        /\ s.total_fragments = Cardinality(d.fragments)
        /\ s.erasures_performed = Cardinality(d.erasures)
        /\ d.entities = {} => s.avg_fragments_per_entity = 0
        /\ d = EmptyDb =>
               s = [total_entities |-> 0, total_fragments |-> 0,
                    avg_fragments_per_entity |-> 0, erasures_performed |-> 0]

\* C12, as claimed: statistics() returns the current numbers of entity,
\* fragment and erasure rows, and avg_fragments_per_entity equal to
\* total_fragments / total_entities (0.0 without entities); all four are
\* zero on an empty store.
StatisticsExact ==
    IsStatistics =>
        /\ StatisticsCounts
        /\ seen.at.entities # {} =>
               seen.stats.avg_fragments_per_entity * Cardinality(seen.at.entities)
                   = 100 * Cardinality(seen.at.fragments)

\* C12, amended: as above, with avg_fragments_per_entity equal to
\* total_fragments / total_entities rounded to two decimals (within half a
\* hundredth of the quotient).
StatisticsRounded ==
    IsStatistics =>
        /\ StatisticsCounts
        /\ seen.at.entities # {} =>
               LET e == Cardinality(seen.at.entities)
                   f == Cardinality(seen.at.fragments)
                   h == seen.stats.avg_fragments_per_entity
               IN  /\ 2 * (h * e - 100 * f) <= e
                   /\ 2 * (100 * f - h * e) <= e

\* C12 witness: statistics of a store of four fragments in three
\* entities.
StatisticsRoundedWitness ==
    /\ IsStatistics
    /\ Cardinality(seen.at.entities) = 3
    /\ Cardinality(seen.at.fragments) = 4
    /\ seen.stats.avg_fragments_per_entity = 133

(***************************************************************************)
(* Properties of the sequential store: failures and erasure records        *)
(***************************************************************************)
\* A delete_fragment call whose frag_id was not stored.
DeletesUnknown(c) == IsDelete(c) /\ OwnerOf(c.pre, c.frag_id) = NoEid

\* C13: delete_fragment with a frag_id that is not stored does not raise:
\* it returns (false, "Fragment not found") and leaves every entity,
\* fragment and erasure row unchanged.
DeleteUnknownFragment ==
    \A k \in Calls :
        DeletesUnknown(hist[k]) =>
            /\ hist[k].res = Returned(FALSE, NoEid, 0, "Fragment not found")
            /\ hist[k].post = hist[k].pre

\* C13 witness: a fragment deleted a second time, while its entity still
\* has another fragment.
DeleteUnknownFragmentWitness ==
    \E k \in Calls :
        /\ DeletesUnknown(hist[k])
        /\ hist[k].pre.fragments # {}
        /\ \E j \in 1..(k - 1) :
               IsDelete(hist[j]) /\ hist[j].frag_id = hist[k].frag_id

\* An erase_entity call on an id that had no entity row.
ErasesUnknown(c) == IsErase(c) /\ ~HasEntity(c.pre, c.entity_id)

\* C14: erase_entity with an entity id that has no entity row returns
\* (false, 0) without raising, writes no erasure record and leaves every
\* entity and fragment row unchanged.
EraseUnknownEntity ==
    \A k \in Calls :
        ErasesUnknown(hist[k]) =>
            /\ hist[k].res.outcome = "returned"
            /\ ~hist[k].res.ok
            /\ hist[k].res.count = 0
            /\ Added(hist[k]) = {}
            /\ hist[k].post.erasures = hist[k].pre.erasures
            /\ hist[k].post.entities = hist[k].pre.entities
            /\ hist[k].post.fragments = hist[k].pre.fragments

\* C14 witness: an id erased after its entity went with its last fragment,
\* while another entity is stored.
EraseUnknownEntityWitness ==
    \E k \in Calls :
        /\ ErasesUnknown(hist[k])
        /\ hist[k].pre.entities # {}
        /\ \E j \in 1..(k - 1) : LastFragment(hist[j])

\* An erasure event: an erase_entity that succeeded, or a delete_fragment
\* that removed the last fragment of its entity.
ErasureEvent(c) ==
    \/ IsErase(c) /\ c.res.ok
    \/ IsDelete(c) /\ c.res.ok /\ ~HasEntity(c.post, c.res.eid)

\* C15: erasure records are append-only and one per erasure event: every
\* successful erase_entity and every delete_fragment that removes an
\* entity's last fragment adds exactly one erasure record, no other call
\* adds one, and no call changes or removes an existing erasure record.
ErasuresAppendOnly ==
    \A k \in Calls :
        /\ hist[k].pre.erasures \subseteq hist[k].post.erasures
        /\ Cardinality(Added(hist[k])) = (IF ErasureEvent(hist[k]) THEN 1 ELSE 0)
        /\ (k = Len(hist)) => hist[k].post.erasures = db.erasures
        /\ (k < Len(hist)) => hist[k].post.erasures = hist[k + 1].pre.erasures

\* C15 witness: an erase_entity and a last-fragment delete_fragment, two
\* erasure records stored.
ErasuresAppendOnlyWitness ==
    /\ \E k \in Calls : IsErase(hist[k]) /\ ErasureEvent(hist[k])
    /\ \E k \in Calls : IsDelete(hist[k]) /\ ErasureEvent(hist[k])
    /\ Cardinality(db.erasures) = 2

(***************************************************************************)
(* The audit log alone: log operations, and the wall clock advancing       *)
(* between them.                                                           *)
(***************************************************************************)
\* Number of log operations in one behaviour.
MaxLogs == 3
\* Number of seconds the wall clock advances in one behaviour.
MaxClock == 2

\* log_scan_operation, log_linking_operation, log_erasure_operation,
\* log_access_operation.
LogOperations == {"scan", "linking", "erasure", "access"}

\* A second passes.
Tick ==
    /\ clock < MaxClock
    /\ clock' = clock + 1
    /\ UNCHANGED <<db, now, nextUuid, hist, callers, base, input, runs, found,
                   seen, logdir, written, ui, scanned, annotated>>

\* audit_logger.log_<operation>_operation(**kwargs): the entry is built
\* (utcnow is read) and _write puts it in the file named by the second.
LogWrite(operation, kwargs) ==
    /\ LET entry == AuditEntry(operation, [sec |-> clock, n |-> now], kwargs)
       IN  /\ logdir' = AuditWrite(logdir, clock, entry)
           /\ written' = Append(written, entry)
    /\ now' = now + 1

Log(operation, kwargs) ==
    /\ Len(written) < MaxLogs
    /\ LogWrite(operation, kwargs)
    /\ UNCHANGED <<db, nextUuid, hist, callers, base, input, runs, found,
                   seen, clock, ui, scanned, annotated>>

NextAudit ==
    \/ Tick
    \/ \E op \in LogOperations : Log(op, [user |-> "demo_user"])

SpecAudit == Init /\ [][NextAudit]_vars

\* The entries written so far, newest first.
NewestFirst == [i \in 1..Len(written) |-> written[Len(written) + 1 - i]]

\* C16: every audit log operation is persisted as its own artifact that no
\* later log operation overwrites or removes: after k log operations,
\* get_recent_logs with limit >= k returns k entries, newest first.
AuditEntriesKept ==
    \A limit \in Len(written)..(Len(written) + 1) :
        GetRecentLogs(logdir, limit) = NewestFirst

(***************************************************************************)
(* Properties of get_entity                                                *)
(***************************************************************************)
IsGet == seen.op = "get_entity"

\* C17: get(entity_id) returns absent exactly when no entity row with that
\* id exists; otherwise the fragment_count of the returned entity equals
\* the number of fragment rows returned with it, which are exactly the
\* stored fragments referencing that entity.
GetEntityConsistent ==
    IsGet =>
        LET g == seen.entity
            d == seen.at
            eid == seen.entity_id
        IN  /\ g.present = HasEntity(d, eid)
            /\ g.present =>
                   /\ g.entity # {}
                   /\ \A e \in g.entity :
                          /\ e.entity_id = eid
                          /\ e.fragment_count = Cardinality(g.fragments)
                   /\ \A f \in d.fragments : (f \in g.fragments) = (f.entity_id = eid)
                   /\ g.fragments \subseteq d.fragments

\* C17 witness: get of an entity with two of the three stored fragments.
GetEntityConsistentWitness ==
    /\ IsGet
    /\ seen.entity.present
    /\ Cardinality(seen.entity.fragments) = 2
    /\ Cardinality(seen.at.fragments) = 3

(***************************************************************************)
(* Properties of the sequential store: timestamps and partial deletes      *)
(***************************************************************************)
\* The entity row of eid in d.
Row(d, eid) == CHOOSE e \in d.entities : e.entity_id = eid

\* The entity has a row before and after the call.
Survives(c, eid) == HasEntity(c.pre, eid) /\ HasEntity(c.post, eid)

\* The call added or removed a fragment row of the entity.
ChangesFragments(c, eid) ==
    {f \in c.pre.fragments : f.entity_id = eid}
        # {f \in c.post.fragments : f.entity_id = eid}

\* C18: created_at is fixed at the first insert of an entity id: while the
\* entity exists no later call (a re-save of a mapping containing the id
\* included) changes it, whereas updated_at is bumped by every call that
\* adds or removes one of its fragments.
CreatedAtFixed ==
    \A k \in Calls :
        \A eid \in {e.entity_id : e \in hist[k].pre.entities} :
            Survives(hist[k], eid) =>
                /\ Row(hist[k].post, eid).created_at = Row(hist[k].pre, eid).created_at
                /\ ChangesFragments(hist[k], eid) =>
                       Row(hist[k].post, eid).updated_at
                           > Row(hist[k].pre, eid).updated_at

\* A delete_fragment call on a fragment of an entity with at least two
\* stored fragments.
DeletesOneOfSeveral(c) ==
    /\ IsDelete(c)
    /\ OwnerOf(c.pre, c.frag_id) # NoEid
    /\ CountFragments(c.pre, OwnerOf(c.pre, c.frag_id)) >= 2

\* C19: delete_fragment on a fragment of an entity with at least two stored
\* fragments removes only that fragment, keeps the entity row, sets its
\* fragment_count to the number of remaining fragments, updates its
\* updated_at, writes no erasure record and returns (true, entity_id).
DeleteKeepsEntity ==
    \A k \in Calls :
        DeletesOneOfSeveral(hist[k]) =>
            LET c == hist[k]
                eid == OwnerOf(c.pre, c.frag_id)
            IN  /\ c.res = Returned(TRUE, eid, 0, "")
                /\ c.post.fragments
                       = {f \in c.pre.fragments : f.frag_id # c.frag_id}
                /\ Cardinality(c.post.fragments) = Cardinality(c.pre.fragments) - 1
                /\ HasEntity(c.post, eid)
                /\ Row(c.post, eid).fragment_count = CountFragments(c.pre, eid) - 1
                /\ Row(c.post, eid).fragment_count = CountFragments(c.post, eid)
                /\ Row(c.post, eid).updated_at # Row(c.pre, eid).updated_at
                /\ {e.entity_id : e \in c.post.entities}
                       = {e.entity_id : e \in c.pre.entities}
                /\ c.post.erasures = c.pre.erasures

\* C19 witness: one of the two fragments of an entity deleted.
DeleteKeepsEntityWitness ==
    \E k \in Calls :
        /\ DeletesOneOfSeveral(hist[k])
        /\ Cardinality(hist[k].post.fragments) = 1

(***************************************************************************)
(* The button handlers of app.py: a store call, then the audit entry.  A   *)
(* handler is two steps, the store call (which commits or fails) and the   *)
(* audit write, which may raise (the directory not writable, the disk      *)
(* full) before the file is created.  The wall clock, which only names     *)
(* the audit files, stands still here.                                     *)
(***************************************************************************)
\* Number of buttons pressed in one behaviour.
MaxPresses == 3

DemoUser == "demo_user"

\* Mutant: the erasure is logged whatever the store call returned.
ShouldLogErasureAlways(success) == TRUE

\* Lines 717 and 788: if success:
ShouldLogErasure(success) == success

\* The handler after its store call returned r.
AfterCall(op, eid, r, log, kwargs) ==
    [pc |-> log, op |-> op, entity_id |-> eid, res |-> r.res, post |-> r.st.db,
     audit |-> "none", kwargs |-> kwargs]

\* "Run Full Historical Scan", lines 455-462: save_mapping inside try/except;
\* the audit entry of the scan follows whether or not the save succeeded.
\* The scans of a behaviour come first.
PressScan(sc, fault) ==
    /\ ui.pc = "idle"
    /\ Len(hist) < MaxSeeds
    /\ LET r == SaveCall(St, sc.mapping, sc.frags, fault)
       IN  /\ Completes(r, CallRecord("save", sc.mapping, sc.frags, NoFragId,
                                      NoEid, fault, r))
           /\ ui' = AfterCall("save", NoEid, r, "log_scan",
                              [rows |-> Len(sc.frags), user |-> DemoUser])
    /\ UNCHANGED <<callers, base, input, runs, found, seen, logdir, clock, written,
                   scanned, annotated>>

\* "Delete" of the PII manager, lines 710-724; the page may show a fragment
\* that is no longer stored.
PressDelete(fid) ==
    /\ ui.pc = "idle"
    /\ Len(hist) < MaxPresses
    /\ LET r == DeleteFragmentCall(St, fid, DemoUser, "Manual PII deletion", 0)
       IN  /\ Completes(r, CallRecord("delete_fragment", EmptyMapping, <<>>,
                                      fid, NoEid, 0, r))
           /\ ui' = AfterCall("delete_fragment", r.res.eid, r,
                              IF ShouldLogErasure(r.res.ok) THEN "log_erasure"
                              ELSE "idle",
                              [entity_id |-> r.res.eid, fragments_deleted |-> 1,
                               requested_by |-> DemoUser,
                               reason |-> "Single PII deletion"])
    /\ UNCHANGED <<callers, base, input, runs, found, seen, logdir, clock, written,
                   scanned, annotated>>

\* "Erase Entity", lines 771-798: erase_entity is called when get_entity
\* finds the entity.
PressErase(eid) ==
    /\ ui.pc = "idle"
    /\ Len(hist) < MaxPresses
    /\ GetEntity(db, eid).present
    /\ LET r == EraseEntityCall(St, eid, DemoUser, Reason, 0)
       IN  /\ Completes(r, CallRecord("erase_entity", EmptyMapping, <<>>,
                                      NoFragId, eid, 0, r))
           /\ ui' = AfterCall("erase_entity", eid, r,
                              IF ShouldLogErasure(r.res.ok) THEN "log_erasure"
                              ELSE "idle",
                              [entity_id |-> eid, fragments_deleted |-> r.res.count,
                               requested_by |-> DemoUser, reason |-> Reason])
    /\ UNCHANGED <<callers, base, input, runs, found, seen, logdir, clock, written,
                   scanned, annotated>>

\* audit_logger.log_scan_operation (line 469) or log_erasure_operation
\* (lines 719, 793) writes its entry.
AuditWritten ==
    /\ ui.pc \in {"log_scan", "log_erasure"}
    /\ LogWrite(IF ui.pc = "log_scan" THEN "scan" ELSE "erasure", ui.kwargs)
    /\ ui' = [ui EXCEPT !.pc = "idle", !.audit = "written"]
    /\ UNCHANGED <<db, nextUuid, hist, callers, base, input, runs, found, seen,
                   clock, scanned, annotated>>

\* The audit write raises: the scan handler catches it (line 479), the
\* delete and erase handlers end with the exception.  No handler touches
\* the store again.
AuditRaises ==
    /\ ui.pc \in {"log_scan", "log_erasure"}
    /\ ui' = [ui EXCEPT !.pc = "idle", !.audit = "raised"]
    /\ UNCHANGED <<db, now, nextUuid, hist, callers, base, input, runs, found,
                   seen, logdir, clock, written, scanned, annotated>>

NextApp ==
    \/ \E sc \in Scans, fault \in {0, 1} : PressScan(sc, fault)
    \/ \E fid \in FragIdArgs : PressDelete(fid)
    \/ \E eid \in EntityIdArgs : PressErase(eid)
    \/ AuditWritten
    \/ AuditRaises

SpecApp == Init /\ [][NextApp]_vars

\* The erasure entries written so far.
ErasureEntries == {i \in 1..Len(written) : written[i].operation = "erasure"}

\* The store calls so far that erased: a successful erase_entity or
\* delete_fragment.
ErasingCalls == {k \in Calls : (IsErase(hist[k]) \/ IsDelete(hist[k])) /\ hist[k].res.ok}

\* The data change of the handler's store call is in d.
ChangeIn(d) ==
    CASE ui.op = "erase_entity" -> Gone(d, ui.entity_id)
      [] ui.op = "delete_fragment" ->
             \A f \in d.fragments : f.frag_id # hist[Len(hist)].frag_id
      [] OTHER -> TRUE

\* C20: the caller writes an erasure audit entry only after erase_entity or
\* delete_fragment has returned success, its data change committed; and a
\* failure of the audit write neither rolls back nor prevents that change:
\* the store stays in the state the operation left.
AuditAfterCommit ==
    /\ Cardinality(ErasureEntries) <= Cardinality(ErasingCalls)
    /\ \A i \in ErasureEntries :
           \E k \in ErasingCalls :
               /\ written[i].kwargs.entity_id
                      = (IF IsErase(hist[k]) THEN hist[k].entity_id ELSE hist[k].res.eid)
               /\ hist[k].post # hist[k].pre
    /\ ui.pc = "log_erasure" =>
           /\ ui.res.ok
           /\ db = ui.post
           /\ ChangeIn(db)
    /\ (ui.audit = "raised" /\ ui.op # "save") =>
           /\ ui.res.ok
           /\ db = ui.post
           /\ db = hist[Len(hist)].post
           /\ ChangeIn(db)

\* C20 witness: an erasure entry was written for a deleted fragment, then
\* the audit write of an erase_entity raised.
AuditAfterCommitWitness ==
    /\ ErasureEntries # {}
    /\ ui.audit = "raised"
    /\ ui.op = "erase_entity"
    /\ Cardinality(db.erasures) >= 1

(***************************************************************************)
(* layer1_scanner/scanner.py: the detectors of scan_text and the sources   *)
(* of scan_job, scan_database and scan_mongo.                              *)
(***************************************************************************)
Letters ==
    {"a", "b", "c", "d", "e", "f", "g", "h", "i", "j", "k", "l", "m", "n",
     "o", "p", "q", "r", "s", "t", "u", "v", "w", "x", "y", "z",
     "A", "B", "C", "D", "E", "F", "G", "H", "I", "J", "K", "L", "M", "N",
     "O", "P", "Q", "R", "S", "T", "U", "V", "W", "X", "Y", "Z"}

\* \d and \w of the re module, on ASCII text.
IsDigit(c) == c \in {"0", "1", "2", "3", "4", "5", "6", "7", "8", "9"}
IsWordChar(c) == c \in Letters \/ IsDigit(c) \/ c = "_"

\* The class [\w\.-] of EMAIL_RE.
IsEmailChar(c) == IsWordChar(c) \/ c \in {".", "-"}

\* The largest element of a non-empty set of integers.
Largest(S) == CHOOSE x \in S : \A y \in S : y <= x

\* EMAIL_RE matched at position i: the position of the match's last
\* character, 0 when there is no match.  Each + takes the longest run that
\* lets the rest of the pattern match: the local part ends before the "@",
\* the domain before the last "." that a \w follows, and the final \w+ runs
\* as far as it can.
EmailMatchEnd(text, i) ==
    LET n == Len(text)
        locals == {j \in i..n : /\ \A p \in i..j : IsEmailChar(text[p])
                                /\ j + 1 <= n
                                /\ text[j + 1] = "@"}
        Domains(j) == {k \in (j + 2)..n :
                           /\ \A p \in (j + 2)..k : IsEmailChar(text[p])
                           /\ k + 2 <= n
                           /\ text[k + 1] = "."
                           /\ IsWordChar(text[k + 2])}
        heads == {j \in locals : Domains(j) # {}}
    IN  IF heads = {} THEN 0
        ELSE LET k == Largest(Domains(Largest(heads)))
             IN  Largest({l \in (k + 2)..n :
                              \A p \in (k + 2)..l : IsWordChar(text[p])})

CprDigits == 6
CprSerial == 4

\* CPR_RE matched at position i: six digits, "-", four digits, with a word
\* boundary on either side.
CprMatchEnd(text, i) ==
    LET n == Len(text)
        e == i + CprDigits + CprSerial
    IN  IF /\ e <= n
           /\ i = 1 \/ ~IsWordChar(text[i - 1])
           /\ \A p \in i..(i + CprDigits - 1) : IsDigit(text[p])
           /\ text[i + CprDigits] = "-"
           /\ \A p \in (i + CprDigits + 1)..e : IsDigit(text[p])
           /\ e = n \/ ~IsWordChar(text[e + 1])
        THEN e ELSE 0

\* finditer: the leftmost match from pos on, then the matches after it.
\* ends[i] is where the pattern matched at i ends (0: no match at i).
RECURSIVE FindIter(_, _, _)
FindIter(text, ends, pos) ==
    LET starts == {i \in pos..Len(text) : ends[i] # 0}
    IN  IF starts = {} THEN <<>>
        ELSE LET i == CHOOSE x \in starts : \A y \in starts : x <= y
             IN  <<SubSeq(text, i, ends[i])>> \o FindIter(text, ends, ends[i] + 1)

EmailMatches(text) ==
    FindIter(text, [i \in 1..Len(text) |-> EmailMatchEnd(text, i)], 1)

CprMatches(text) ==
    FindIter(text, [i \in 1..Len(text) |-> CprMatchEnd(text, i)], 1)

\* The fragments of one detector: its values under one type and source.
Fragments(type, values, source) ==
    [k \in 1..Len(values) |-> [type |-> type, value |-> values[k], source |-> source]]

\* analyzer.analyze of Presidio is outside this repository: it either
\* raises or returns spans (entity_type, start, end) of the text.
\* The fragments of the spans (lines 28-33): value is text[start:end].
NerFragments(text, source, spans) ==
    [k \in 1..Len(spans) |->
        [type |-> spans[k].entity_type,
         value |-> SubSeq(text, spans[k].start + 1, spans[k].end),
         source |-> source]]

\* What a scanner function hands to its caller.
ScanReturned(fragments) == [outcome |-> "returned", fragments |-> fragments]
ScanRaised == [outcome |-> "raised", fragments |-> <<>>]

\* scan_text without the try around the analyzer: its exception ends the call.
ScanTextAborts(text, source, ner) ==
    IF ner.raises THEN ScanRaised
    ELSE ScanReturned(NerFragments(text, source, ner.spans)
                      \o Fragments(EMAIL_ADDRESS, EmailMatches(text), source)
                      \o Fragments(CPR, CprMatches(text), source))

\* scan_text(text, source), with ner what the analyzer does on this text.
ScanText(text, source, ner) ==
    ScanReturned((IF ner.raises THEN <<>>
                  ELSE NerFragments(text, source, ner.spans))
                 \o Fragments(EMAIL_ADDRESS, EmailMatches(text), source)
                 \o Fragments(CPR, CprMatches(text), source))

\* A try block around scan_text (lines 65-69, 86-102): what it adds to the
\* fragments of the job.
Caught(r) == IF r.outcome = "returned" THEN r.fragments ELSE <<>>

\* One uploaded file of scan_job (lines 64-69).
ScanBlob(blob) == Caught(ScanText(blob.doc.text, blob.name, blob.doc.ner))

\* One directory entry (lines 80-102): directories are skipped, and a file
\* that cannot be read is reported and skipped.
ScanFile(entry) ==
    IF entry.isdir THEN <<>>
    ELSE IF ~entry.readable THEN <<>>
    ELSE Caught(ScanText(entry.doc.text, entry.name, entry.doc.ner))

\* A folder scan without the try around each file: the first file that
\* cannot be read ends the folder.
ScanFolderAborts(folder) ==
    IF ~folder.exists \/ ~folder.listable THEN <<>>
    ELSE LET bad == {k \in 1..Len(folder.entries) :
                        ~folder.entries[k].isdir /\ ~folder.entries[k].readable}
             last == IF bad = {} THEN Len(folder.entries)
                     ELSE (CHOOSE k \in bad : \A j \in bad : k <= j) - 1
         IN  Flatten([k \in 1..last |-> ScanFile(folder.entries[k])])

\* One folder path (lines 73-104): a missing path is skipped, and so is a
\* folder that os.listdir cannot list.
ScanFolder(folder) ==
    IF ~folder.exists THEN <<>>
    ELSE IF ~folder.listable THEN <<>>
    ELSE Flatten([k \in 1..Len(folder.entries) |-> ScanFile(folder.entries[k])])

\* scan_job(file_objs, folder_paths).
ScanJob(file_objs, folder_paths) ==
    ScanReturned(Flatten([k \in 1..Len(file_objs) |-> ScanBlob(file_objs[k])])
                 \o Flatten([k \in 1..Len(folder_paths) |-> ScanFolder(folder_paths[k])]))

\* One column value or document field (lines 151-154, 210-213): source is
\* "<table>.<column>".
ScanCell(name, cell) ==
    IF cell.isnull THEN <<>>
    ELSE Caught(ScanText(cell.doc.text, name \o <<".">> \o cell.col, cell.doc.ner))

\* One table (lines 141-161): a query that raises skips the table.
ScanTable(table) ==
    IF table.fails THEN <<>>
    ELSE Flatten([k \in 1..Len(table.cells) |-> ScanCell(table.name, table.cells[k])])

\* scan_database(connection_string, tables).
ScanDatabase(conn, tables) ==
    IF ~conn.given THEN ScanReturned(<<>>)
    ELSE IF ~conn.connects THEN ScanReturned(<<>>)
    ELSE ScanReturned(Flatten([k \in 1..Len(tables) |-> ScanTable(tables[k])]))

MongoId == <<"_", "i", "d">>

\* One collection (lines 201-217): find raises when the server cannot be
\* reached or the collection cannot be read; the _id field is not scanned.
ScanCollection(conn, coll) ==
    IF ~conn.connects \/ coll.fails THEN <<>>
    ELSE Flatten([k \in 1..Len(coll.cells) |->
                     IF coll.cells[k].col = MongoId THEN <<>>
                     ELSE ScanCell(coll.name, coll.cells[k])])

\* scan_mongo(mongo_uri, database_name, collections): with no collections
\* named, list_collection_names is the first call that needs the server.
ScanMongo(conn, collections) ==
    IF ~conn.given THEN ScanReturned(<<>>)
    ELSE IF ~conn.named /\ ~conn.connects THEN ScanReturned(<<>>)
    ELSE ScanReturned(Flatten([k \in 1..Len(collections) |->
                                  ScanCollection(conn, collections[k])]))

(***************************************************************************)
(* The scanner's callers: each behaviour makes one scanner call.           *)
(***************************************************************************)
MaxSources == 2

Span(type, start, end) == [entity_type |-> type, start |-> start, end |-> end]

\* Texts, each with the spans the analyzer reports on it when it works.
EmailText == <<"a", "@", "b", ".", "c">>
NoMatchText == <<"a", "@", "b">>
CprText == <<"x", " ", "0", "1", "0", "1", "9", "0", "-", "1", "2", "3", "4">>
MixedText == <<"A", "l", " ", "a", "@", "b", ".", "c", ".", " ", "0", "1", "0", "1", "9", "0", "-", "1", "2", "3", "4">>
GluedText == <<"a", "@", "b", ".", "c", "0", "1", "0", "1", "9", "0", "-", "1", "2", "3", "4">>
LongDomainText == <<"a", "@", "b", ".", "c", "-", "d", ".", "e", "_", "f", "-", "g">>
PaddedCprText == <<"0", "0", "1", "0", "1", "9", "0", "-", "1", "2", "3", "4">>
TwoEmailsText == <<"a", ".", "b", "@", "c", ".", "d", " ", "e", "@", "f", ".", "g">>

Analyzed(text, spans) == [text |-> text, spans |-> spans]

ScanDocs ==
    {Analyzed(EmailText, <<Span(EMAIL_ADDRESS, 0, 5)>>),
     Analyzed(NoMatchText, <<>>),
     Analyzed(CprText, <<>>),
     Analyzed(MixedText, <<Span(PERSON, 0, 2), Span(EMAIL_ADDRESS, 3, 8)>>),
     Analyzed(GluedText, <<>>),
     Analyzed(LongDomainText, <<>>),
     Analyzed(PaddedCprText, <<>>),
     Analyzed(TwoEmailsText, <<Span(EMAIL_ADDRESS, 0, 7)>>)}

Doc(text, raises, spans) == [text |-> text, ner |-> [raises |-> raises, spans |-> spans]]

\* The documents of the sources of a job.
EmailDoc == Doc(EmailText, FALSE, <<Span(EMAIL_ADDRESS, 0, 5)>>)
MixedDoc == Doc(MixedText, TRUE, <<>>)
NoMatchDoc == Doc(NoMatchText, FALSE, <<>>)

BlobPool == {[name |-> <<"u">>, doc |-> d] : d \in {EmailDoc, MixedDoc, NoMatchDoc}}

Entry(name, isdir, readable, doc) ==
    [name |-> name, isdir |-> isdir, readable |-> readable, doc |-> doc]

Folder(exists, listable, entries) ==
    [exists |-> exists, listable |-> listable, entries |-> entries]

FolderPool ==
    {Folder(FALSE, FALSE, <<>>),
     Folder(TRUE, FALSE, <<>>),
     Folder(TRUE, TRUE, <<Entry(<<"a">>, FALSE, FALSE, NoMatchDoc),
                          Entry(<<"b">>, FALSE, TRUE, MixedDoc)>>),
     Folder(TRUE, TRUE, <<Entry(<<"c">>, FALSE, TRUE, EmailDoc),
                          Entry(<<"d">>, TRUE, FALSE, NoMatchDoc)>>),
     Folder(TRUE, TRUE, <<Entry(<<"e">>, FALSE, TRUE, NoMatchDoc)>>)}

Cell(col, isnull, doc) == [col |-> col, isnull |-> isnull, doc |-> doc]

Table(name, fails, cells) == [name |-> name, fails |-> fails, cells |-> cells]

TablePool ==
    {Table(<<"t">>, FALSE, <<Cell(<<"c">>, FALSE, EmailDoc),
                             Cell(<<"n">>, TRUE, NoMatchDoc)>>),
     Table(<<"x">>, TRUE, <<Cell(<<"c">>, FALSE, EmailDoc)>>),
     Table(<<"m">>, FALSE, <<Cell(MongoId, FALSE, EmailDoc),
                             Cell(<<"c">>, FALSE, MixedDoc)>>)}

\* The lists of length 0..n over a pool.
Sources(pool, n) == {<<>>} \cup Lists(pool, n)

CallScanText(doc, raises) ==
    /\ scanned.op = "none"
    /\ LET ner == [raises |-> raises, spans |-> doc.spans]
       IN  scanned' = [op |-> "scan_text",
                       arg |-> [text |-> doc.text, ner |-> ner],
                       res |-> ScanText(doc.text, <<"f">>, ner)]
    /\ UNCHANGED <<db, now, nextUuid, hist, callers, base, input, runs, found,
                   seen, logdir, clock, written, ui, annotated>>

CallScanJob(file_objs, folder_paths) ==
    /\ scanned.op = "none"
    /\ scanned' = [op |-> "scan_job",
                   arg |-> [file_objs |-> file_objs, folder_paths |-> folder_paths],
                   res |-> ScanJob(file_objs, folder_paths)]
    /\ UNCHANGED <<db, now, nextUuid, hist, callers, base, input, runs, found,
                   seen, logdir, clock, written, ui, annotated>>

CallScanDatabase(conn, tables) ==
    /\ scanned.op = "none"
    /\ scanned' = [op |-> "scan_database",
                   arg |-> [conn |-> conn, tables |-> tables],
                   res |-> ScanDatabase(conn, tables)]
    /\ UNCHANGED <<db, now, nextUuid, hist, callers, base, input, runs, found,
                   seen, logdir, clock, written, ui, annotated>>

CallScanMongo(conn, collections) ==
    /\ scanned.op = "none"
    /\ scanned' = [op |-> "scan_mongo",
                   arg |-> [conn |-> conn, tables |-> collections],
                   res |-> ScanMongo(conn, collections)]
    /\ UNCHANGED <<db, now, nextUuid, hist, callers, base, input, runs, found,
                   seen, logdir, clock, written, ui, annotated>>

NextScan ==
    \/ \E doc \in ScanDocs, raises \in BOOLEAN : CallScanText(doc, raises)
    \/ \E file_objs \in Sources(BlobPool, MaxSources),
          folder_paths \in Sources(FolderPool, MaxSources) :
           CallScanJob(file_objs, folder_paths)
    \/ \E given \in BOOLEAN, connects \in BOOLEAN,
          tables \in Sources(TablePool, MaxSources) :
           CallScanDatabase([given |-> given, connects |-> connects], tables)
    \/ \E given \in BOOLEAN, connects \in BOOLEAN, named \in BOOLEAN,
          collections \in Sources(TablePool, MaxSources) :
           CallScanMongo([given |-> given, connects |-> connects, named |-> named],
                         collections)

SpecScan == Init /\ [][NextScan]_vars

(***************************************************************************)
(* Failing detectors and failing sources.                                  *)
(***************************************************************************)
\* The matches of the two patterns in each text of ScanDocs, as
\* re.findall reports them.
PatternMatches(text) ==
    CASE text = EmailText -> [emails |-> <<<<"a", "@", "b", ".", "c">>>>, cprs |-> <<>>]
      [] text = NoMatchText -> [emails |-> <<>>, cprs |-> <<>>]
      [] text = CprText -> [emails |-> <<>>, cprs |-> <<<<"0", "1", "0", "1", "9", "0", "-", "1", "2", "3", "4">>>>]
      [] text = MixedText -> [emails |-> <<<<"a", "@", "b", ".", "c">>>>, cprs |-> <<<<"0", "1", "0", "1", "9", "0", "-", "1", "2", "3", "4">>>>]
      [] text = GluedText -> [emails |-> <<<<"a", "@", "b", ".", "c", "0", "1", "0", "1", "9", "0">>>>, cprs |-> <<>>]
      [] text = LongDomainText -> [emails |-> <<<<"a", "@", "b", ".", "c", "-", "d", ".", "e", "_", "f">>>>, cprs |-> <<>>]
      [] text = PaddedCprText -> [emails |-> <<>>, cprs |-> <<>>]
      [] text = TwoEmailsText -> [emails |-> <<<<"a", ".", "b", "@", "c", ".", "d">>, <<"e", "@", "f", ".", "g">>>>, cprs |-> <<>>]

\* The values of the fragments of one type, in order.
Values(frs, type) ==
    LET sel == SelectSeq(frs, LAMBDA f : f.type = type)
    IN  [k \in 1..Len(sel) |-> sel[k].value]

\* C21: when the NER detector raises, scan_text still returns to its
\* caller, and what it returns is every email-pattern match and every
\* national-ID-pattern match of the text, and nothing else.
DetectorFailureKeepsPatterns ==
    (scanned.op = "scan_text" /\ scanned.arg.ner.raises) =>
        LET expected == PatternMatches(scanned.arg.text)
            frs == scanned.res.fragments
        IN  /\ scanned.res.outcome = "returned"
            /\ Values(frs, EMAIL_ADDRESS) = expected.emails
            /\ Values(frs, CPR) = expected.cprs
            /\ Len(frs) = Len(expected.emails) + Len(expected.cprs)

\* The detector raised on a text that holds an email address and a
\* national ID, and both came back.
DetectorFailureKeepsPatternsWitness ==
    /\ scanned.op = "scan_text"
    /\ scanned.arg.ner.raises
    /\ scanned.arg.text = MixedText
    /\ Len(scanned.res.fragments) = 2

\* The files of a folder that scan_job can read.
ReadableEntries(folder) ==
    IF folder.exists /\ folder.listable
    THEN SelectSeq(folder.entries, LAMBDA e : ~e.isdir /\ e.readable)
    ELSE <<>>

\* The blobs and files of a job that can be read, in the order scanned.
ReadableSources(file_objs, folder_paths) ==
    [k \in 1..Len(file_objs) |-> [name |-> file_objs[k].name, doc |-> file_objs[k].doc]]
    \o Flatten([k \in 1..Len(folder_paths) |->
                   LET es == ReadableEntries(folder_paths[k])
                   IN  [j \in 1..Len(es) |-> [name |-> es[j].name, doc |-> es[j].doc]]])

\* C22: scan_job returns, and what it returns is the fragments of every
\* blob and of every readable file of every folder that exists and can be
\* listed: a missing folder or an unreadable file takes nothing else with
\* it.  scan_database and scan_mongo return the empty list when the
\* connection fails.
FailingSourceSkipped ==
    /\ scanned.op = "scan_job" =>
           LET srcs == ReadableSources(scanned.arg.file_objs, scanned.arg.folder_paths)
           IN  /\ scanned.res.outcome = "returned"
               /\ scanned.res.fragments =
                      Flatten([k \in 1..Len(srcs) |->
                                  ScanText(srcs[k].doc.text, srcs[k].name,
                                           srcs[k].doc.ner).fragments])
    /\ (/\ scanned.op \in {"scan_database", "scan_mongo"}
        /\ scanned.arg.conn.given
        /\ ~scanned.arg.conn.connects) =>
           /\ scanned.res.outcome = "returned"
           /\ scanned.res.fragments = <<>>

\* A job with a missing folder, then a folder whose first file cannot be
\* read and whose second file holds fragments, which came back.
FailingSourceSkippedWitness ==
    /\ scanned.op = "scan_job"
    /\ Len(scanned.arg.folder_paths) = 2
    /\ ~scanned.arg.folder_paths[1].exists
    /\ LET es == scanned.arg.folder_paths[2].entries
       IN  /\ scanned.arg.folder_paths[2].exists
           /\ Len(es) = 2
           /\ ~es[1].readable /\ ~es[1].isdir
           /\ es[2].readable
    /\ scanned.res.fragments # <<>>

(***************************************************************************)
(* First match, read off the mapping alone.                                *)
(***************************************************************************)
\* A value that lower().strip() leaves empty.
Blank(value) == \A k \in 1..Len(value) : value[k] = " "

\* similarity(val, member) of the fragments at i and j of the input.
Sim(i, j) == Ratio(Normalize(input[i].value), Normalize(input[j].value))

\* The clusters that exist when fragment i is reached, and their members.
ClustersBefore(m, i) == {m[j].entity_id : j \in {k \in DOMAIN m : k < i}}
MembersBefore(m, i, e) == {j \in DOMAIN m : j < i /\ m[j].entity_id = e}

\* The maximum similarity of fragment i over the members of cluster e.
MaxSim(m, i, e) ==
    LET rs == {Sim(i, j) : j \in MembersBefore(m, i, e)}
    IN  CHOOSE r \in rs : \A q \in rs : RatioLeq(q, r)

\* The clusters whose maximum similarity is at least pct percent.
Qualifying(m, i, pct) ==
    {e \in ClustersBefore(m, i) :
        200 * MaxSim(m, i, e).m >= pct * MaxSim(m, i, e).t}

\* The index that created cluster e, and the earliest created of a set.
Created(m, e) ==
    CHOOSE j \in DOMAIN m :
        /\ m[j].entity_id = e
        /\ \A k \in DOMAIN m : m[k].entity_id = e => j <= k
FirstCreated(m, E) == CHOOSE e \in E : \A f \in E : Created(m, e) <= Created(m, f)

\* Fragment i went to the first qualifying cluster, or to a new one when
\* none qualifies.
AssignsFirstCluster(m, i, pct) ==
    IF Qualifying(m, i, pct) = {} THEN m[i].entity_id \notin ClustersBefore(m, i)
    ELSE m[i].entity_id = FirstCreated(m, Qualifying(m, i, pct))

\* The distance, in units of 1/(100 t), between the confidence of fragment
\* i (in hundredths) and the maximum similarity 2m/t of its cluster.
ConfidenceGap(m, i, pct) ==
    LET r == MaxSim(m, i, FirstCreated(m, Qualifying(m, i, pct)))
        d == m[i].confidence * r.t - 200 * r.m
    IN  [off |-> IF d < 0 THEN 0 - d ELSE d, t |-> r.t]

\* Thresholds with a similarity of the pool between them and below the
\* lower one, in percent.
FirstThresholds == {60, 85}

NextFirst == \E pct \in FirstThresholds : Cluster(pct)

SpecFirst == InitLinker /\ [][NextFirst]_vars

\* C23 as claimed: every fragment with a non-empty normalized value is
\* assigned to the first cluster, in creation order, whose maximum
\* similarity meets the threshold, with confidence equal to that maximum
\* similarity; a new cluster is created only when none qualifies.
FirstClusterExactConfidence ==
    \A pct \in DOMAIN runs :
        LET m == runs[pct]
        IN  /\ \A i \in 1..Len(input) : ~Blank(input[i].value) => i \in DOMAIN m
            /\ \A i \in DOMAIN m :
                   /\ AssignsFirstCluster(m, i, pct)
                   /\ Qualifying(m, i, pct) # {} => ConfidenceGap(m, i, pct).off = 0

\* C23 amended: the same, with the confidence equal to that maximum
\* similarity rounded to 2 decimals.
FirstClusterRoundedConfidence ==
    \A pct \in DOMAIN runs :
        LET m == runs[pct]
        IN  /\ \A i \in 1..Len(input) : ~Blank(input[i].value) => i \in DOMAIN m
            /\ \A i \in DOMAIN m :
                   /\ AssignsFirstCluster(m, i, pct)
                   /\ Qualifying(m, i, pct) # {} =>
                          2 * ConfidenceGap(m, i, pct).off <= ConfidenceGap(m, i, pct).t

\* A fragment joined the first qualifying cluster although a cluster
\* created later is strictly more similar, and its confidence is a rounded
\* value.
FirstClusterRoundedConfidenceWitness ==
    \E pct \in DOMAIN runs :
        LET m == runs[pct]
        IN  \E i \in DOMAIN m :
                /\ Qualifying(m, i, pct) # {}
                /\ m[i].entity_id = FirstCreated(m, Qualifying(m, i, pct))
                /\ \E e \in ClustersBefore(m, i) :
                       /\ Created(m, m[i].entity_id) < Created(m, e)
                       /\ ~RatioLeq(MaxSim(m, i, e), MaxSim(m, i, m[i].entity_id))
                /\ ConfidenceGap(m, i, pct).off # 0

(***************************************************************************)
(* The rows of the store after sequences of calls.                         *)
(***************************************************************************)
\* C24: every stored fragment row references an existing entity row, after
\* any sequence of save, delete_fragment and erase_entity calls.
FragmentsHaveEntity ==
    \A f \in db.fragments : \E e \in db.entities : e.entity_id = f.entity_id

\* Fragment rows are stored after a delete_fragment or an erase_entity
\* that removed rows.
FragmentsHaveEntityWitness ==
    /\ db.fragments # {}
    /\ \E k \in Calls :
           /\ IsDelete(hist[k]) \/ IsErase(hist[k])
           /\ hist[k].res.ok
           /\ hist[k].post.fragments # {}

\* The scans whose links carry different confidences: linked below the
\* default threshold, in percent.
SaveThreshold == 60

SaveInputs ==
    {<<Frag(EMAIL_ADDRESS, <<"a", "b">>), Frag(PERSON, <<"b">>)>>,
     <<Frag(PERSON, <<" ">>), Frag(EMAIL_ADDRESS, <<"a", "b">>)>>,
     <<Frag(EMAIL_ADDRESS, <<"a", "b">>), Frag(PERSON, <<"b", "a">>),
       Frag(PERSON, <<"b">>)>>,
     <<Frag(PERSON, <<"b", "a">>), Frag(EMAIL_ADDRESS, <<"a", "b">>),
       Frag(EMAIL_ADDRESS, <<"a", "b">>)>>,
     <<Frag(PERSON, <<"b">>)>>}

NextSave ==
    \E frs \in SaveInputs :
        Save(Scan(frs, SaveThreshold).mapping, frs, 0)

SpecSave == Init /\ [][NextSave]_vars

\* The sum of the confidences of the mapping indices in S.
RECURSIVE SumConfidence(_, _)
SumConfidence(m, S) ==
    IF S = {} THEN 0
    ELSE LET i == CHOOSE x \in S : TRUE
         IN  m[i].confidence + SumConfidence(m, S \ {i})

\* What a fragment row carries of its fragment and its link.
Carried(type, value, source, confidence) ==
    [frag_type |-> type, value |-> value, source |-> source,
     confidence |-> confidence]

\* C26: after save(mapping, fragments), for every entity id e of the
\* mapping the stored fragment rows of e are exactly one row per mapping
\* index i with mapping[i].entity_id = e, carrying the type, value and
\* source of fragments[i] and the confidence of mapping[i]; every frag_id
\* is unique in the store; and the entity's confidence is the arithmetic
\* mean of those confidences.
SaveStoresMapping ==
    \A k \in Calls :
        (IsSave(hist[k]) /\ hist[k].res.ok) =>
            LET m == hist[k].mapping
                frs == hist[k].frags
                post == hist[k].post
                Of(i) == Carried(frs[i].type, frs[i].value, frs[i].source,
                                 m[i].confidence)
                In(f) == Carried(f.frag_type, f.value, f.source, f.confidence)
            IN  /\ \A f, g \in post.fragments : f.frag_id = g.frag_id => f = g
                /\ \A e \in {m[i].entity_id : i \in DOMAIN m} :
                       LET idx == {i \in DOMAIN m : m[i].entity_id = e}
                           rows == {f \in post.fragments : f.entity_id = e}
                           ents == {x \in post.entities : x.entity_id = e}
                       IN  /\ Cardinality(rows) = Cardinality(idx)
                           /\ \A i \in idx :
                                  Cardinality({f \in rows : In(f) = Of(i)})
                                      = Cardinality({j \in idx : Of(j) = Of(i)})
                           /\ Cardinality(ents) = 1
                           /\ \A x \in ents :
                                  x.confidence.num * Cardinality(idx)
                                      = x.confidence.den * SumConfidence(m, idx)

\* A save over stored rows of the same entity, whose links carry
\* different confidences.
SaveStoresMappingWitness ==
    \E k \in Calls :
        /\ IsSave(hist[k])
        /\ hist[k].res.ok
        /\ hist[k].pre.fragments # {}
        /\ \E i, j \in DOMAIN hist[k].mapping :
               /\ hist[k].mapping[i].entity_id = hist[k].mapping[j].entity_id
               /\ hist[k].mapping[i].confidence # hist[k].mapping[j].confidence

\* C27: every erasure record's erasure_id carries a prefix that
\* distinguishes it from the entity ids, which start with "E-": no
\* erasure_id starts with "E-", whether erase_entity or delete_fragment
\* wrote it.
ErasureIdsDistinguished ==
    \A x \in db.erasures : SubSeq(x.erasure_id.prefix, 1, 2) # <<"E", "-">>

\* C28: no entity row with zero fragments exists, after any sequence of
\* save (of mappings produced by cluster), delete_fragment and
\* erase_entity calls.
NoEmptyEntity ==
    \A e \in db.entities : \E f \in db.fragments : f.entity_id = e.entity_id

\* The last fragment of one entity was deleted while another entity is
\* stored.
NoEmptyEntityWitness ==
    /\ hist # <<>>
    /\ LET c == hist[Len(hist)]
       IN  /\ IsDelete(c)
           /\ c.res.ok
           /\ ~HasEntity(c.post, c.res.eid)
           /\ c.post.entities # {}

\* The entities a call targets: those of the mapping, the owner of the
\* fragment, the entity named.
Targets(c) ==
    IF IsSave(c) THEN {c.mapping[i].entity_id : i \in DOMAIN c.mapping}
    ELSE IF IsDelete(c)
    THEN {f.entity_id : f \in {g \in c.pre.fragments : g.frag_id = c.frag_id}}
    ELSE {c.entity_id}

\* The rows of the entities a call does not target.
Others(rows, c) == {r \in rows : r.entity_id \notin Targets(c)}

\* C29: a call leaves unchanged every entity row and fragment row of the
\* entities it does not target; save and unsuccessful calls leave the
\* erasure records unchanged.
OtherEntitiesUntouched ==
    \A k \in Calls :
        LET c == hist[k]
        IN  /\ Others(c.post.entities, c) = Others(c.pre.entities, c)
            /\ Others(c.post.fragments, c) = Others(c.pre.fragments, c)
            /\ (IsSave(c) \/ ~c.res.ok) => c.post.erasures = c.pre.erasures

\* A save and a delete_fragment that each left the rows of another entity
\* in place.
OtherEntitiesUntouchedWitness ==
    /\ \E k \in Calls :
           /\ IsSave(hist[k])
           /\ Others(hist[k].pre.fragments, hist[k]) # {}
    /\ \E k \in Calls :
           /\ IsDelete(hist[k])
           /\ hist[k].res.ok
           /\ Others(hist[k].pre.fragments, hist[k]) # {}

(***************************************************************************)
(* The mapping and the annotated table of one run of the linker.           *)
(***************************************************************************)
\* C25: a fragment index is a key of the mapping exactly when the
\* fragment's case-folded, trimmed value is non-empty; the annotated table
\* has one row per input fragment, with the mapping's entity_id and
\* confidence at the mapped indices and entity_id "N/A", score 0.0 at the
\* skipped ones.
TableFollowsMapping ==
    \A pct \in DOMAIN runs :
        LET m == runs[pct]
            t == annotated[pct]
        IN  /\ DOMAIN m = {i \in 1..Len(input) : ~Blank(input[i].value)}
            /\ Len(t) = Len(input)
            /\ \A i \in 1..Len(input) :
                   IF i \in DOMAIN m
                   THEN /\ t[i].entity_id = m[i].entity_id
                        /\ t[i].score = m[i].confidence
                   ELSE /\ t[i].entity_id = <<"N", "/", "A">>
                        /\ t[i].score = 0

\* A run over a list with a blank fragment, a seed and a fragment linked
\* to the seed.
TableFollowsMappingWitness ==
    \E pct \in DOMAIN runs :
        /\ Len(input) = 3
        /\ Cardinality(DOMAIN runs[pct]) = 2
        /\ NumEntities(runs[pct]) = 1
        /\ \E i \in 1..Len(input) : annotated[pct][i].entity_id = <<"N", "/", "A">>

\* The fragments whose similarity to every earlier non-skipped fragment is
\* below pct percent.
Seeds(pct) ==
    {i \in 1..Len(input) :
        /\ ~Blank(input[i].value)
        /\ \A j \in 1..(i - 1) :
               ~Blank(input[j].value) => 200 * Sim(i, j).m < pct * Sim(i, j).t}

\* The fragments a mapping gives an entity id no earlier fragment has.
Seeding(m) ==
    {i \in DOMAIN m : \A j \in DOMAIN m : j < i => m[j].entity_id # m[i].entity_id}

\* E-000001, E-000002, ..., the n-th of them.
SequentialId(n) ==
    <<"E", "-", "0", "0", "0", "0", "0">>
    \o <<(<<"1", "2", "3", "4", "5", "6", "7", "8", "9">>)[n]>>

\* C30: a fragment with a non-empty normalized value seeds a new entity if
\* and only if its similarity to every earlier non-skipped fragment is
\* below the threshold; the number of entities is the number of such
\* fragments; the entity ids are E-000001, E-000002, ... without gaps in
\* order of first appearance; every seed has confidence 1.0.
SeedsGetSequentialIds ==
    \A pct \in DOMAIN runs :
        LET m == runs[pct]
        IN  /\ Seeding(m) = Seeds(pct)
            /\ NumEntities(m) = Cardinality(Seeds(pct))
            /\ \A i \in Seeds(pct) :
                   /\ m[i].entity_id
                          = SequentialId(Cardinality({j \in Seeds(pct) : j <= i}))
                   /\ m[i].confidence = 100

\* A run with two seeds and a fragment linked to one of them.
SeedsGetSequentialIdsWitness ==
    \E pct \in DOMAIN runs :
        /\ Cardinality(Seeds(pct)) = 2
        /\ NumAssigned(runs[pct]) = 3

====
